---- MODULE Spec2Model ----
(***************************************************************************)
(* QualitySync backend: the authorization and state-transition core.       *)
(* The persistent state is the three tables of the schema (users,          *)
(* test_cases, unlisted_bugs); every HTTP request runs the route's         *)
(* middleware chain (authenticate, authorize, validation) and then the     *)
(* controller.  The response of a request is a function of the stored      *)
(* state and the request (the ...Response operators); a request whose      *)
(* response is an error leaves the tables as they are.  Under Spec a       *)
(* request runs to completion as one step; under ConcSpec the conversion   *)
(* handler is split at its awaits on the store, so that two requests       *)
(* interleave at the persistence boundary.                                 *)
(***************************************************************************)
EXTENDS Integers, Sequences, FiniteSets, TLC

VARIABLES users, nextUser, tests, bugs, nextTest, nextBug, clock, convertLog, log,
          inflight

vars == <<users, nextUser, tests, bugs, nextTest, nextBug, clock, convertLog, log,
         inflight>>
db == <<users, nextUser, tests, bugs, nextTest, nextBug, clock, convertLog, log>>

(* ---------------------------- bounds ----------------------------------- *)
MaxTests == 2
MaxBugs == 1
MaxInflight == 2
\* the number of requests that go through (each writes one log entry)
MaxLog == 5
\* the number of accounts created on top of the seeded ones
MaxNewUsers == 1
\* the number of requests that go through under UserSpec, AuthConcSpec,
\* EvidenceSpec, AssigneeSpec and RaceSpec
MaxUserLog == 3

TestIds == 1..MaxTests
BugIds == 1..MaxBugs
Slots == 1..MaxInflight

(* ------------------------- values of fields ---------------------------- *)
\* JavaScript's undefined (an omitted body field) and SQL NULL / JS null
Undefined == "undefined"
Null == "null"
\* a nullable uuid column holding NULL, and an omitted or empty uuid in a body
NullId == 0

Falsy(v) == v \in {Undefined, Null, ""}
\* x || null
OrNull(v) == IF Falsy(v) THEN Null ELSE v

user_role == {"PM", "QA", "ENG"}
test_status == {"pending", "pass", "fail", "escalated"}
bug_status == {"open", "in_progress", "resolved", "closed", "converted_to_test"}
bug_severity == {"low", "medium", "high", "critical"}

\* the accounts: 1 a verified PM, 2 a verified QA, 3 a QA who registered and
\* has not yet verified the e-mail address, 4 a verified ENG
UserIds == 1..4
Actors == UserIds

\* strings used as evidence links
JamUrl == "https://jam.dev/c/1"
JamUrl2 == "https://jam.dev/c/2"
OtherUrl == "https://example.com/v"
BareJam == "jam.dev"
\* a sentence, no URL, that names the provider's domain
JamText == "recording is on jam.dev"
\* validator.js isURL with its default options (the protocol is optional)
isURL(v) == v \in {JamUrl, JamUrl2, OtherUrl, BareJam}
\* value.includes('jam.dev')
includesJam(v) == v \in {JamUrl, JamUrl2, BareJam, JamText}

\* text fields of request bodies
TextA == "checkout flow rejects an expired card"
TextB == "profile page keeps the old avatar"

(* ----------------------------- schema ---------------------------------- *)
\* argon2.hash and argon2.verify: a hash is not the password, and verify
\* accepts exactly the password the hash was made from
argon2hash(password) == <<"argon2", password>>
argon2verify(hash, password) == hash = argon2hash(password)

\* CREATE TABLE users: the columns the handlers read; reset_password_token is
\* NULL until forgotPassword stores one
UserRow(email, hash, role, verified, vtoken) ==
    [email |-> email, password_hash |-> hash, role |-> role,
     is_verified |-> verified, verification_token |-> vtoken,
     reset_password_token |-> Null]

\* CREATE TABLE test_cases; status DEFAULT 'pending', notes and source_bug_id
\* NULL unless given
TestRow(mp, tc, er, ev, assignee, creator, source) ==
    [module_platform |-> mp, test_case |-> tc, expected_result |-> er,
     status |-> "pending", evidence_url |-> ev, notes |-> Null,
     assigned_to |-> assignee, created_by |-> creator, source_bug_id |-> source]

\* CREATE TABLE unlisted_bugs; severity DEFAULT 'medium', status DEFAULT 'open'
BugRow(mp, link, descr, note, severity, creator) ==
    [module_platform |-> mp, jam_link |-> link, description |-> descr,
     note |-> note, severity |-> severity, status |-> "open",
     created_by |-> creator, converted_to_test_id |-> NullId,
     converted_at |-> NullId]

\* the accounts present when the workload starts: registered through
\* register (1, 2, 4 verified by verifyEmail; 3 still holds its token)
SeedUsers ==
    (1 :> UserRow("pm@qualitysync.com", argon2hash("Pm-Passw0rd"), "PM", TRUE, Null)) @@
    (2 :> UserRow("qa@qualitysync.com", argon2hash("Qa-Passw0rd"), "QA", TRUE, Null)) @@
    (3 :> UserRow("qa2@qualitysync.com", argon2hash("Qa2-Passw0rd"), "QA", FALSE, "vt-3")) @@
    (4 :> UserRow("eng@qualitysync.com", argon2hash("Eng-Passw0rd"), "ENG", TRUE, Null))

\* a request slot: free, or a convertToTest request between two awaits, with
\* the handler's locals (the bug row it read, the id of the test it inserted)
NoRow == [status |-> "none"]
NoBody == [assigned_to |-> NullId]
NoReq == [op |-> "none", pc |-> "none", actor |-> NullId, id |-> NullId,
          body |-> NoBody, bug |-> NoRow, testId |-> NullId]

\* logger.info(event, {id, by}) of a handler that went through: log holds the
\* number of entries written and the last one, convertLog counts the 'Bug
\* converted to test' entries of each bug
LogEntry(n, event, id, by) == [n |-> n, event |-> event, id |-> id, by |-> by]
NoLog == LogEntry(0, "", NullId, NullId)

Init ==
    /\ users = SeedUsers
    /\ nextUser = Cardinality(DOMAIN SeedUsers) + 1
    /\ tests = <<>>
    /\ bugs = <<>>
    /\ nextTest = 1
    /\ nextBug = 1
    /\ clock = 1
    /\ convertLog = [b \in BugIds |-> 0]
    /\ log = NoLog
    /\ inflight = [s \in Slots |-> NoReq]

\* a handler writes its entry
Logged(event, id, by) ==
    /\ log.n < MaxLog
    /\ log' = LogEntry(log.n + 1, event, id, by)
\* the last entry written is this one
LastLog(l, event, id, by) == l.event = event /\ l.id = id /\ l.by = by

(* --------------------------- middleware -------------------------------- *)
\* res.status(s).json({success, message}), and the errorHandler's rendering
\* of a thrown ApiError(s, message)
Response(status, message) == [status |-> status, message |-> message]
Passed == Response(200, "")
Success(r) == r.status \in {200, 201}
ValidationFailed == Response(400, "Validation failed")

\* authenticate: the bearer token names user u; the user row is fetched again
authenticate(u) ==
    IF u \notin DOMAIN users THEN Response(401, "Invalid token. User not found.")
    ELSE IF ~users[u].is_verified
         THEN Response(403, "Please verify your email before accessing this resource.")
         ELSE Passed

\* authorize deciding on the role the user had when the token was issued
\* (a role claim carried in the token) instead of req.user.role
authorizeIssuedRole(u, roles) ==
    IF (IF u \in DOMAIN SeedUsers THEN SeedUsers[u].role ELSE "QA") \notin roles
    THEN Response(403, "Access denied. Required role")
    ELSE Passed

\* authorize(...roles), run after authenticate
authorize(u, roles) ==
    IF users[u].role \notin roles
    THEN Response(403, "Access denied. Required role")
    ELSE Passed

\* a route mounted without its authorize(...)
GateAuthenticateOnly(u, roles) == authenticate(u)

\* router.use(authenticate) followed by the route's authorize
Gate(u, roles) ==
    IF authenticate(u) # Passed THEN authenticate(u) ELSE authorize(u, roles)

(* ------------------- express-validator chains -------------------------- *)
\* .optional(): the chain is skipped when the field is undefined
optional(v) == v = Undefined
\* the string a validator sees
toString(v) == IF v \in {Undefined, Null} THEN "" ELSE v
notEmpty(v) == toString(v) # ""
isLength(v, min, max) == Len(toString(v)) >= min /\ Len(toString(v)) <= max
\* ids are uuids; NullId stands for a missing or empty one
isUUID(id) == id # NullId

\* .optional().isURL().custom(includes('jam.dev')) of createTestValidation
\* and updateTestResultValidation
evidenceUrlValid(v) == optional(v) \/ (isURL(v) /\ includesJam(v))

createTestValidation(body) ==
    /\ notEmpty(body.module_platform) /\ isLength(body.module_platform, 0, 255)
    /\ notEmpty(body.test_case) /\ isLength(body.test_case, 5, 2000)
    /\ notEmpty(body.expected_result) /\ isLength(body.expected_result, 5, 2000)
    /\ evidenceUrlValid(body.evidence_url)
    /\ isUUID(body.assigned_to)

\* the chain with 'pending' left in the list of accepted statuses
updateTestResultValidationAnyStatus(id, body) ==
    /\ isUUID(id)
    /\ body.status \in test_status
    /\ evidenceUrlValid(body.evidence_url)
    /\ (optional(body.notes) \/ isLength(body.notes, 0, 2000))

updateTestResultValidation(id, body) ==
    /\ isUUID(id)
    /\ body.status \in {"pass", "fail", "escalated"}
    /\ evidenceUrlValid(body.evidence_url)
    /\ (optional(body.notes) \/ isLength(body.notes, 0, 2000))

\* the inline chain of PUT /tests/:id: evidence_url has the custom check
\* only; assigned_to is optional().isUUID(), an omitted one being NullId
updateTestValidation(id, body) ==
    /\ isUUID(id)
    /\ (optional(body.module_platform) \/ isLength(body.module_platform, 0, 255))
    /\ (optional(body.test_case) \/ isLength(body.test_case, 5, 2000))
    /\ (optional(body.expected_result) \/ isLength(body.expected_result, 5, 2000))
    /\ (optional(body.evidence_url) \/ Falsy(body.evidence_url)
          \/ includesJam(body.evidence_url))

uuidParamValidation(id) == isUUID(id)

createBugValidation(body) ==
    /\ notEmpty(body.module_platform) /\ isLength(body.module_platform, 0, 255)
    /\ notEmpty(body.jam_link) /\ isURL(body.jam_link) /\ includesJam(body.jam_link)
    /\ notEmpty(body.description) /\ isLength(body.description, 10, 2000)
    /\ (optional(body.note) \/ isLength(body.note, 0, 2000))
    /\ (optional(body.severity) \/ body.severity \in bug_severity)

\* the inline chain of PUT /bugs/:id; status accepts four of the five values
updateBugValidation(id, body) ==
    /\ isUUID(id)
    /\ (optional(body.module_platform) \/ isLength(body.module_platform, 0, 255))
    /\ (optional(body.jam_link) \/ (isURL(body.jam_link) /\ includesJam(body.jam_link)))
    /\ (optional(body.description) \/ isLength(body.description, 10, 2000))
    /\ (optional(body.note) \/ isLength(body.note, 0, 2000))
    /\ (optional(body.severity) \/ body.severity \in bug_severity)
    /\ (optional(body.status)
          \/ body.status \in {"open", "in_progress", "resolved", "closed"})

convertBugToTestValidation(id, body) ==
    /\ isUUID(id)
    /\ isUUID(body.assigned_to)
    /\ notEmpty(body.test_case) /\ isLength(body.test_case, 5, 2000)
    /\ notEmpty(body.expected_result) /\ isLength(body.expected_result, 5, 2000)

verifyEmailValidation(token) == notEmpty(token)

\* e-mail addresses of the workload: two nobody holds yet, the second QA's
\* address in capitals, and a string that is no address
NewEmail == "new@qualitysync.com"
OtherEmail == "other@qualitysync.com"
CapitalEmail == "QA2@QualitySync.com"
NotEmail == "qa2 at qualitysync"
\* .isEmail()
isEmail(v) == v \in {NewEmail, OtherEmail, CapitalEmail} \cup {SeedUsers[x].email : x \in DOMAIN SeedUsers}
\* .normalizeEmail(): the address in lower case
normalizeEmail(v) == IF v = CapitalEmail THEN "qa2@qualitysync.com" ELSE v

\* passwords of the workload: the rules of registerValidation hold of the
\* first two; the third is under eight characters
GoodPassword == "N3w-Passw0rd"
OtherPassword == "0ther-Passw0rd"
ShortPassword == "Sh0rt"
strongPassword(v) == v \in {GoodPassword, OtherPassword} \cup {"Pm-Passw0rd", "Qa-Passw0rd", "Qa2-Passw0rd", "Eng-Passw0rd"}

createUserValidation(body) ==
    /\ isEmail(body.email)
    /\ notEmpty(body.name) /\ isLength(body.name, 2, 100)
    /\ body.role \in user_role
    /\ optional(body.password) \/ isLength(body.password, 8, 255)

\* the chain of PUT /users/:id
updateUserValidation(id, body) ==
    /\ isUUID(id)
    /\ optional(body.name) \/ isLength(body.name, 2, 100)
    /\ optional(body.role) \/ body.role \in user_role

(* ------------------------ test controller ------------------------------ *)
\* the assignee lookup shared by createTest, updateTest and convertToTest:
\* the row must exist and have role QA
assigneeCheck(a) ==
    IF a \notin DOMAIN users THEN Response(400, "Assigned user not found")
    ELSE IF users[a].role # "QA"
         THEN Response(400, "Tests can only be assigned to QA testers")
         ELSE Passed

\* column ILIKE '%pattern%' on the texts and patterns of the workload: the
\* pattern occurs in the text, letter case ignored
ilike(text, pattern) ==
    <<text, pattern>> \in {<<"web", "web">>, <<"web", "WEB">>, <<"web", "we">>,
                           <<TextA, "checkout">>, <<TextA, "Card">>,
                           <<TextB, "avatar">>}

\* parseInt(req.query.x) || d: an omitted parameter takes the default
intParam(v, d) == IF v = NullId THEN d ELSE v

\* paginationValidation and the filters of GET /tests
getTestsValidation(q) ==
    /\ q.page = NullId \/ q.page >= 1
    /\ q.limit = NullId \/ (q.limit >= 1 /\ q.limit <= 100)
    /\ optional(q.status) \/ q.status \in {"pending", "pass", "fail", "escalated"}
    /\ optional(q.module_platform) \/ isLength(q.module_platform, 0, 255)
    /\ optional(q.search) \/ isLength(q.search, 0, 255)
    /\ optional(q.order) \/ q.order \in {"asc", "desc"}

\* getTests with the role-based filtering left out: every caller sees all rows
getTestsScopeNone(u, row) == TRUE

\* getTests with the QA branch only
getTestsScopeQAOnly(u, row) ==
    users[u].role = "QA" => row.assigned_to = u

\* role-based filtering of getTests: QA sees the tests assigned to them, ENG
\* the failed and escalated ones, PM all
getTestsScope(u, row) ==
    IF users[u].role = "QA" THEN row.assigned_to = u
    ELSE IF users[u].role = "ENG" THEN row.status \in {"fail", "escalated"}
    ELSE TRUE

\* the filters of the query string
getTestsFilter(q, row) ==
    /\ (~Falsy(q.status) /\ q.status \in {"pending", "pass", "fail", "escalated"})
          => row.status = q.status
    /\ ~Falsy(q.module_platform) => ilike(row.module_platform, q.module_platform)
    /\ ~Falsy(q.search) =>
          (ilike(row.test_case, q.search) \/ ilike(row.expected_result, q.search))

\* the rows the query selects, before ordering and paging
getTestsRows(u, q) ==
    {t \in DOMAIN tests : getTestsScope(u, tests[t]) /\ getTestsFilter(q, tests[t])}

\* .order('created_at', {ascending}): ids are handed out in creation order
RECURSIVE ascending(_)
ascending(S) ==
    IF S = {} THEN <<>>
    ELSE LET m == CHOOSE x \in S : \A y \in S : x <= y IN <<m>> \o ascending(S \ {m})
descending(S) ==
    LET a == ascending(S) IN [i \in 1..Len(a) |-> a[Len(a) + 1 - i]]

\* .range(offset, offset + limit - 1) of the ordered rows: the page returned
getTestsPage(u, q) ==
    LET rows == IF q.order = "asc" THEN ascending(getTestsRows(u, q))
                ELSE descending(getTestsRows(u, q))
        offset == (intParam(q.page, 1) - 1) * intParam(q.limit, 10)
        last == IF offset + intParam(q.limit, 10) < Len(rows)
                THEN offset + intParam(q.limit, 10) ELSE Len(rows)
    IN SubSeq(rows, offset + 1, last)

\* GET /tests
getTestsResponse(u, q, ok) ==
    IF authenticate(u) # Passed THEN authenticate(u)
    ELSE IF ~getTestsValidation(q) THEN ValidationFailed
    ELSE IF ~ok THEN Response(500, "Failed to fetch test cases")
    ELSE Response(200, "")

\* the tests of the response body: data.tests of a 200, nothing otherwise
getTestsData(u, q, ok) ==
    IF Success(getTestsResponse(u, q, ok)) THEN getTestsPage(u, q) ELSE <<>>

getTests(u, q, ok) == UNCHANGED db

\* GET /tests/:id
getTestResponse(u, id) ==
    IF authenticate(u) # Passed THEN authenticate(u)
    ELSE IF ~uuidParamValidation(id) THEN ValidationFailed
    ELSE IF id \notin DOMAIN tests THEN Response(404, "Test case not found")
    ELSE IF users[u].role = "QA" /\ tests[id].assigned_to # u
    THEN Response(403, "You do not have access to this test case")
    ELSE IF users[u].role = "ENG" /\ tests[id].status \notin {"fail", "escalated"}
    THEN Response(403, "You can only view failed or escalated test cases")
    ELSE Response(200, "")

\* a read: the tables stay as they are, the caller gets getTestResponse
getTest(u, id) == UNCHANGED db

\* POST /tests
createTestResponse(u, body, ok) ==
    IF Gate(u, {"PM"}) # Passed THEN Gate(u, {"PM"})
    ELSE IF ~createTestValidation(body) THEN ValidationFailed
    ELSE IF assigneeCheck(body.assigned_to) # Passed THEN assigneeCheck(body.assigned_to)
    ELSE IF ~ok THEN Response(500, "Failed to create test case")
    ELSE Response(201, "Test case created successfully")

createTest(u, body, ok) ==
    IF ~Success(createTestResponse(u, body, ok)) THEN UNCHANGED db
    ELSE /\ nextTest <= MaxTests
         /\ tests' = (nextTest :> TestRow(body.module_platform, body.test_case,
                                          body.expected_result, OrNull(body.evidence_url),
                                          body.assigned_to, u, NullId)) @@ tests
         /\ nextTest' = nextTest + 1
         /\ Logged("Test case created", nextTest, u)
         /\ UNCHANGED <<users, nextUser, bugs, nextBug, clock, convertLog>>

\* the handler without its check that the caller is the assignee
updateTestResultResponseAnyQA(u, id, body, ok) ==
    IF Gate(u, {"QA"}) # Passed THEN Gate(u, {"QA"})
    ELSE IF ~updateTestResultValidation(id, body) THEN ValidationFailed
    ELSE IF id \notin DOMAIN tests THEN Response(404, "Test case not found")
    ELSE IF ~ok THEN Response(500, "Failed to update test result")
    ELSE Response(200, "Test result updated successfully")

\* PUT /tests/:id/result
updateTestResultResponse(u, id, body, ok) ==
    IF Gate(u, {"QA"}) # Passed THEN Gate(u, {"QA"})
    ELSE IF ~updateTestResultValidation(id, body) THEN ValidationFailed
    ELSE IF id \notin DOMAIN tests THEN Response(404, "Test case not found")
    ELSE IF tests[id].assigned_to # u
    THEN Response(403, "You can only update tests assigned to you")
    ELSE IF ~ok THEN Response(500, "Failed to update test result")
    ELSE Response(200, "Test result updated successfully")

\* the update with an omitted evidence_url or notes left as stored
updateTestResultDataKeepOmitted(row, body) ==
    [row EXCEPT !.status = body.status,
                !.evidence_url = IF Falsy(body.evidence_url) THEN @ ELSE body.evidence_url,
                !.notes = IF Falsy(body.notes) THEN @ ELSE body.notes]

\* the update of updateTestResult, applied to the stored row
updateTestResultData(row, body) ==
    [row EXCEPT !.status = body.status,
                !.evidence_url = OrNull(body.evidence_url),
                !.notes = OrNull(body.notes)]

updateTestResult(u, id, body, ok) ==
    IF ~Success(updateTestResultResponse(u, id, body, ok)) THEN UNCHANGED db
    ELSE /\ tests' = [tests EXCEPT ![id] = updateTestResultData(@, body)]
         /\ Logged("Test result updated", id, u)
         /\ UNCHANGED <<users, nextUser, bugs, nextTest, nextBug, clock, convertLog>>

\* updateTest reassigns when assigned_to is given and differs from the row's
reassigning(row, body) ==
    body.assigned_to # NullId /\ body.assigned_to # row.assigned_to

\* PUT /tests/:id
updateTestResponse(u, id, body, ok) ==
    IF Gate(u, {"PM"}) # Passed THEN Gate(u, {"PM"})
    ELSE IF ~updateTestValidation(id, body) THEN ValidationFailed
    ELSE IF id \notin DOMAIN tests THEN Response(404, "Test case not found")
    ELSE IF reassigning(tests[id], body) /\ assigneeCheck(body.assigned_to) # Passed
    THEN assigneeCheck(body.assigned_to)
    ELSE IF ~ok THEN Response(500, "Failed to update test case")
    ELSE Response(200, "Test case updated successfully")

\* updateData with the result cleared when the test is reassigned
updateTestDataResetResult(row, body) ==
    [row EXCEPT
       !.module_platform = IF Falsy(body.module_platform) THEN @ ELSE body.module_platform,
       !.test_case = IF Falsy(body.test_case) THEN @ ELSE body.test_case,
       !.expected_result = IF Falsy(body.expected_result) THEN @ ELSE body.expected_result,
       !.evidence_url = IF body.evidence_url = Undefined THEN @ ELSE OrNull(body.evidence_url),
       !.assigned_to = IF reassigning(row, body) THEN body.assigned_to ELSE @,
       !.status = IF reassigning(row, body) THEN "pending" ELSE @,
       !.notes = IF reassigning(row, body) THEN Null ELSE @]

\* updateData of updateTest, applied to the stored row
updateTestData(row, body) ==
    [row EXCEPT
       !.module_platform = IF Falsy(body.module_platform) THEN @ ELSE body.module_platform,
       !.test_case = IF Falsy(body.test_case) THEN @ ELSE body.test_case,
       !.expected_result = IF Falsy(body.expected_result) THEN @ ELSE body.expected_result,
       !.evidence_url = IF body.evidence_url = Undefined THEN @ ELSE OrNull(body.evidence_url),
       !.assigned_to = IF reassigning(row, body) THEN body.assigned_to ELSE @]

updateTest(u, id, body, ok) ==
    IF ~Success(updateTestResponse(u, id, body, ok)) THEN UNCHANGED db
    ELSE /\ tests' = [tests EXCEPT ![id] = updateTestData(@, body)]
         /\ Logged("Test case updated", id, u)
         /\ UNCHANGED <<users, nextUser, bugs, nextTest, nextBug, clock, convertLog>>

\* converted_to_test_id REFERENCES test_cases(id) ON DELETE SET NULL
onDeleteTest(bs, id) ==
    [b \in DOMAIN bs |->
       IF bs[b].converted_to_test_id = id
       THEN [bs[b] EXCEPT !.converted_to_test_id = NullId] ELSE bs[b]]

\* DELETE /tests/:id
deleteTestResponse(u, id, ok) ==
    IF Gate(u, {"PM"}) # Passed THEN Gate(u, {"PM"})
    ELSE IF ~uuidParamValidation(id) THEN ValidationFailed
    ELSE IF id \notin DOMAIN tests THEN Response(404, "Test case not found")
    ELSE IF ~ok THEN Response(500, "Failed to delete test case")
    ELSE Response(200, "Test case deleted successfully")

deleteTest(u, id, ok) ==
    IF ~Success(deleteTestResponse(u, id, ok)) THEN UNCHANGED db
    ELSE /\ tests' = [t \in DOMAIN tests \ {id} |-> tests[t]]
         /\ bugs' = onDeleteTest(bugs, id)
         /\ Logged("Test case deleted", id, u)
         /\ UNCHANGED <<users, nextUser, nextTest, nextBug, clock, convertLog>>

(* ------------------------- bug controller ------------------------------ *)
\* GET /bugs/:id
getBugResponse(u, id) ==
    IF authenticate(u) # Passed THEN authenticate(u)
    ELSE IF ~uuidParamValidation(id) THEN ValidationFailed
    ELSE IF id \notin DOMAIN bugs THEN Response(404, "Bug not found")
    ELSE IF users[u].role = "QA" /\ bugs[id].created_by # u
    THEN Response(403, "You do not have access to this bug")
    ELSE Response(200, "")

\* a read: the tables stay as they are, the caller gets getBugResponse
getBug(u, id) == UNCHANGED db

\* POST /bugs
createBugResponse(u, body, ok) ==
    IF Gate(u, {"QA"}) # Passed THEN Gate(u, {"QA"})
    ELSE IF ~createBugValidation(body) THEN ValidationFailed
    ELSE IF ~ok THEN Response(500, "Failed to create unlisted bug")
    ELSE Response(201, "Bug reported successfully")

createBug(u, body, ok) ==
    IF ~Success(createBugResponse(u, body, ok)) THEN UNCHANGED db
    ELSE /\ nextBug <= MaxBugs
         /\ bugs' = (nextBug :> BugRow(body.module_platform, body.jam_link,
                                       body.description, OrNull(body.note),
                                       IF Falsy(body.severity) THEN "medium"
                                       ELSE body.severity, u)) @@ bugs
         /\ nextBug' = nextBug + 1
         /\ Logged("Unlisted bug created", nextBug, u)
         /\ UNCHANGED <<users, nextUser, tests, nextTest, clock, convertLog>>

\* updateBug's permission check with the test on the converted status left out
updateBugPermissionOwnOnly(u, row) ==
    IF users[u].role = "QA" /\ row.created_by # u
    THEN Response(403, "You can only update bugs you created")
    ELSE Passed

\* the permission check of updateBug: only a QA caller is restricted
updateBugPermission(u, row) ==
    IF users[u].role = "QA" /\ row.created_by # u
    THEN Response(403, "You can only update bugs you created")
    ELSE IF users[u].role = "QA" /\ row.status = "converted_to_test"
    THEN Response(400, "Cannot update a bug that has been converted to a test")
    ELSE Passed

\* PUT /bugs/:id: the route has authenticate and validation, no authorize
updateBugResponse(u, id, body, ok) ==
    IF authenticate(u) # Passed THEN authenticate(u)
    ELSE IF ~updateBugValidation(id, body) THEN ValidationFailed
    ELSE IF id \notin DOMAIN bugs THEN Response(404, "Bug not found")
    ELSE IF updateBugPermission(u, bugs[id]) # Passed THEN updateBugPermission(u, bugs[id])
    ELSE IF ~ok THEN Response(500, "Failed to update bug")
    ELSE Response(200, "Bug updated successfully")

\* updateData of updateBug, applied to the stored row
updateBugData(row, body, role) ==
    [row EXCEPT
       !.module_platform = IF Falsy(body.module_platform) THEN @ ELSE body.module_platform,
       !.jam_link = IF Falsy(body.jam_link) THEN @ ELSE body.jam_link,
       !.description = IF Falsy(body.description) THEN @ ELSE body.description,
       !.note = IF body.note = Undefined THEN @ ELSE OrNull(body.note),
       !.severity = IF Falsy(body.severity) THEN @ ELSE body.severity,
       !.status = IF ~Falsy(body.status) /\ role = "PM" THEN body.status ELSE @]

updateBug(u, id, body, ok) ==
    IF ~Success(updateBugResponse(u, id, body, ok)) THEN UNCHANGED db
    ELSE /\ bugs' = [bugs EXCEPT ![id] = updateBugData(@, body, users[u].role)]
         /\ Logged("Bug updated", id, u)
         /\ UNCHANGED <<users, nextUser, tests, nextTest, nextBug, clock, convertLog>>

\* the guard of convertToTest on the bug row it read
convertGuard(bs, id) ==
    IF id \notin DOMAIN bs THEN Response(404, "Bug not found")
    ELSE IF bs[id].status = "converted_to_test"
    THEN Response(400, "This bug has already been converted to a test case")
    ELSE Passed

\* POST /bugs/:id/convert; the response does not depend on the outcome of
\* the update of the bug
convertToTestResponse(u, id, body, insertOk) ==
    IF Gate(u, {"PM"}) # Passed THEN Gate(u, {"PM"})
    ELSE IF ~convertBugToTestValidation(id, body) THEN ValidationFailed
    ELSE IF convertGuard(bugs, id) # Passed THEN convertGuard(bugs, id)
    ELSE IF assigneeCheck(body.assigned_to) # Passed THEN assigneeCheck(body.assigned_to)
    ELSE IF ~insertOk THEN Response(500, "Failed to convert bug to test case")
    ELSE Response(201, "Bug converted to test case successfully")

\* the row convertToTest inserts, from the bug row it read
convertTestRow(bug, id, body, u) ==
    TestRow(bug.module_platform, body.test_case, body.expected_result,
            bug.jam_link, body.assigned_to, u, id)

\* the update of the bug that follows the insert; its result is not looked
\* at, so a failed update (ok = FALSE) or one that matches no row changes
\* nothing and is not reported
convertBugUpdate(bs, id, testId, now, ok) ==
    IF ok /\ id \in DOMAIN bs
    THEN [bs EXCEPT ![id] = [@ EXCEPT !.status = "converted_to_test",
                                      !.converted_to_test_id = testId,
                                      !.converted_at = now]]
    ELSE bs

convertToTest(u, id, body, insertOk, updateOk) ==
    IF ~Success(convertToTestResponse(u, id, body, insertOk)) THEN UNCHANGED db
    ELSE /\ nextTest <= MaxTests
         /\ tests' = (nextTest :> convertTestRow(bugs[id], id, body, u)) @@ tests
         /\ nextTest' = nextTest + 1
         /\ bugs' = convertBugUpdate(bugs, id, nextTest, clock, updateOk)
         /\ clock' = clock + 1
         /\ convertLog' = [convertLog EXCEPT ![id] = @ + 1]
         /\ Logged("Bug converted to test", id, u)
         /\ UNCHANGED <<users, nextUser, nextBug>>

\* the handler's own update({ source_bug_id: null }) of the derived test;
\* its result is not looked at
clearSourceBug(ts, testId, ok) ==
    IF ok /\ testId \in DOMAIN ts
    THEN [ts EXCEPT ![testId] = [@ EXCEPT !.source_bug_id = NullId]]
    ELSE ts

\* fk_source_bug: source_bug_id REFERENCES unlisted_bugs(id) ON DELETE SET NULL
onDeleteBug(ts, id) ==
    [t \in DOMAIN ts |->
       IF ts[t].source_bug_id = id THEN [ts[t] EXCEPT !.source_bug_id = NullId]
       ELSE ts[t]]

\* DELETE /bugs/:id
deleteBugResponse(u, id, ok) ==
    IF Gate(u, {"PM"}) # Passed THEN Gate(u, {"PM"})
    ELSE IF ~uuidParamValidation(id) THEN ValidationFailed
    ELSE IF id \notin DOMAIN bugs THEN Response(404, "Bug not found")
    ELSE IF ~ok THEN Response(500, "Failed to delete bug")
    ELSE Response(200, "Bug deleted successfully")

\* deleteBug with the derived tests deleted along with the bug
deleteBugCascade(u, id, clearOk, ok) ==
    IF ~Success(deleteBugResponse(u, id, ok)) THEN UNCHANGED db
    ELSE /\ tests' = [t \in {x \in DOMAIN tests : tests[x].source_bug_id # id} |-> tests[t]]
         /\ bugs' = [b \in DOMAIN bugs \ {id} |-> bugs[b]]
         /\ Logged("Bug deleted", id, u)
         /\ UNCHANGED <<users, nextUser, nextTest, nextBug, clock, convertLog>>

deleteBug(u, id, clearOk, ok) ==
    LET r == deleteBugResponse(u, id, ok)
        cleared == clearSourceBug(tests, bugs[id].converted_to_test_id, clearOk) IN
    IF r.status \notin {200, 500} THEN UNCHANGED db
    ELSE IF r.status = 500
    THEN /\ tests' = cleared
         /\ UNCHANGED <<users, nextUser, bugs, nextTest, nextBug, clock, convertLog, log>>
    ELSE /\ tests' = onDeleteBug(cleared, id)
         /\ bugs' = [b \in DOMAIN bugs \ {id} |-> bugs[b]]
         /\ Logged("Bug deleted", id, u)
         /\ UNCHANGED <<users, nextUser, nextTest, nextBug, clock, convertLog>>

(* ------------------------- user controller ----------------------------- *)
\* router.use(authenticate); router.use(authorize('PM')) of /users, and the
\* read handlers behind it
getUsersResponse(u, ok) ==
    IF Gate(u, {"PM"}) # Passed THEN Gate(u, {"PM"})
    ELSE IF ~ok THEN Response(500, "Failed to fetch users")
    ELSE Response(200, "")

getQATestersResponse(u, ok) ==
    IF Gate(u, {"PM"}) # Passed THEN Gate(u, {"PM"})
    ELSE IF ~ok THEN Response(500, "Failed to fetch QA testers")
    ELSE Response(200, "")

\* GET /users/:id
getUserResponse(u, id) ==
    IF Gate(u, {"PM"}) # Passed THEN Gate(u, {"PM"})
    ELSE IF ~uuidParamValidation(id) THEN ValidationFailed
    ELSE IF id \notin DOMAIN users THEN Response(404, "User not found")
    ELSE Response(200, "")

getUser(u, id) == UNCHANGED db

\* the rows with this e-mail address
userByEmail(email) == {x \in DOMAIN users : users[x].email = email}

\* uuidv4().slice(0, 12): the temporary password of a user created without one
TempPassword == "3f2a9c1e-7b4"

\* POST /users
createUserResponse(u, body, ok) ==
    IF Gate(u, {"PM"}) # Passed THEN Gate(u, {"PM"})
    ELSE IF ~createUserValidation(body) THEN ValidationFailed
    ELSE IF userByEmail(normalizeEmail(body.email)) # {}
    THEN Response(409, "User with this email already exists")
    ELSE IF ~ok THEN Response(500, "Failed to create user")
    ELSE Response(201, "User created successfully. They can now log in.")

\* the welcome e-mail is sent inside try/catch: mailOk has no effect
createUser(u, body, ok, mailOk) ==
    IF ~Success(createUserResponse(u, body, ok)) THEN UNCHANGED db
    ELSE /\ nextUser <= Cardinality(DOMAIN SeedUsers) + MaxNewUsers
         /\ users' = (nextUser :>
                        UserRow(normalizeEmail(body.email),
                                argon2hash(IF Falsy(body.password) THEN TempPassword
                                           ELSE body.password),
                                body.role, TRUE, Null)) @@ users
         /\ nextUser' = nextUser + 1
         /\ Logged("User created by PM", nextUser, u)
         /\ UNCHANGED <<tests, bugs, nextTest, nextBug, clock, convertLog>>

\* PUT /users/:id
updateUserResponse(u, id, body, ok) ==
    IF Gate(u, {"PM"}) # Passed THEN Gate(u, {"PM"})
    ELSE IF ~updateUserValidation(id, body) THEN ValidationFailed
    ELSE IF id \notin DOMAIN users THEN Response(404, "User not found")
    ELSE IF ~ok THEN Response(500, "Failed to update user")
    ELSE Response(200, "User updated successfully")

\* updateData of updateUser (the name column is not part of the model)
updateUser(u, id, body, ok) ==
    IF ~Success(updateUserResponse(u, id, body, ok)) THEN UNCHANGED db
    ELSE /\ users' = [users EXCEPT ![id].role =
                        IF ~Falsy(body.role) /\ body.role \in user_role
                        THEN body.role ELSE @]
         /\ Logged("User updated", id, u)
         /\ UNCHANGED <<nextUser, tests, bugs, nextTest, nextBug, clock, convertLog>>

\* ON DELETE RESTRICT of test_cases.assigned_to / created_by and of
\* unlisted_bugs.created_by: the store refuses to delete a referenced user
userReferenced(id) ==
    \/ \E t \in DOMAIN tests : id \in {tests[t].assigned_to, tests[t].created_by}
    \/ \E b \in DOMAIN bugs : bugs[b].created_by = id

\* DELETE /users/:id
deleteUserResponse(u, id, ok) ==
    IF Gate(u, {"PM"}) # Passed THEN Gate(u, {"PM"})
    ELSE IF ~uuidParamValidation(id) THEN ValidationFailed
    ELSE IF id = u THEN Response(400, "You cannot delete your own account")
    ELSE IF id \notin DOMAIN users THEN Response(404, "User not found")
    ELSE IF \E t \in DOMAIN tests : tests[t].assigned_to = id
    THEN Response(400, "Cannot delete user with assigned test cases. Reassign tests first.")
    ELSE IF ~ok \/ userReferenced(id) THEN Response(500, "Failed to delete user")
    ELSE Response(200, "User deleted successfully")

deleteUser(u, id, ok) ==
    IF ~Success(deleteUserResponse(u, id, ok)) THEN UNCHANGED db
    ELSE /\ users' = [x \in DOMAIN users \ {id} |-> users[x]]
         /\ Logged("User deleted", id, u)
         /\ UNCHANGED <<nextUser, tests, bugs, nextTest, nextBug, clock, convertLog>>

(* ------------------------- auth controller ----------------------------- *)
\* the user row verifyEmail finds by its token (.single(): exactly one row)
userByVerificationToken(token) ==
    {x \in DOMAIN users : users[x].verification_token = token}

\* POST /auth/verify-email; expired: the token's expiry lies before now
verifyEmailResponse(token, expired, ok) ==
    IF ~verifyEmailValidation(token) THEN ValidationFailed
    ELSE IF Cardinality(userByVerificationToken(token)) # 1
    THEN Response(400, "Invalid or expired verification token")
    ELSE IF expired THEN Response(400, "Verification token has expired")
    ELSE IF ~ok THEN Response(500, "Failed to verify email")
    ELSE Response(200, "Email verified successfully. You can now log in.")

verifyEmail(token, expired, ok) ==
    IF ~Success(verifyEmailResponse(token, expired, ok)) THEN UNCHANGED db
    ELSE /\ users' = [x \in DOMAIN users |->
                        IF x \in userByVerificationToken(token)
                        THEN [users[x] EXCEPT !.is_verified = TRUE,
                                              !.verification_token = Null]
                        ELSE users[x]]
         /\ Logged("Email verified",
                            CHOOSE x \in userByVerificationToken(token) : TRUE, NullId)
         /\ UNCHANGED <<nextUser, tests, bugs, nextTest, nextBug, clock, convertLog>>

\* generateRandomToken(): uuidv4() + '-' + Date.now().toString(36), a string
\* no earlier call returned
generateRandomToken(now) == "tk-" \o ToString(now)

registerValidation(body) ==
    /\ isEmail(body.email)
    /\ strongPassword(body.password)
    /\ notEmpty(body.name) /\ isLength(body.name, 2, 100)
    /\ body.role \in user_role
loginValidation(body) ==
    /\ isEmail(body.email)
    /\ notEmpty(body.password) /\ isLength(body.password, 6, 255)
forgotPasswordValidation(body) == isEmail(body.email)
resetPasswordValidation(body) == notEmpty(body.token) /\ strongPassword(body.password)

\* POST /auth/register
registerResponse(body, ok) ==
    IF ~registerValidation(body) THEN ValidationFailed
    ELSE IF userByEmail(normalizeEmail(body.email)) # {}
    THEN Response(409, "User with this email already exists")
    ELSE IF ~ok THEN Response(500, "Failed to create user")
    ELSE Response(201, "Registration successful. Please check your email to verify your account.")

\* the row register inserts: is_verified takes its default FALSE
registerRow(body, now) ==
    UserRow(normalizeEmail(body.email), argon2hash(body.password), body.role, FALSE,
            generateRandomToken(now))

\* the verification e-mail is sent inside try/catch: mailOk has no effect
register(body, ok, mailOk) ==
    IF ~Success(registerResponse(body, ok)) THEN UNCHANGED db
    ELSE /\ nextUser <= Cardinality(DOMAIN SeedUsers) + MaxNewUsers
         /\ users' = (nextUser :> registerRow(body, clock)) @@ users
         /\ nextUser' = nextUser + 1
         /\ clock' = clock + 1
         /\ Logged("User registered", nextUser, NullId)
         /\ UNCHANGED <<tests, bugs, nextTest, nextBug, convertLog>>

\* login with the check on is_verified left out
loginResponseUnverifiedToo(body) ==
    IF ~loginValidation(body) THEN ValidationFailed
    ELSE IF userByEmail(normalizeEmail(body.email)) = {}
    THEN Response(401, "Invalid email or password")
    ELSE LET x == CHOOSE y \in userByEmail(normalizeEmail(body.email)) : TRUE IN
         IF ~argon2verify(users[x].password_hash, body.password)
         THEN Response(401, "Invalid email or password")
         ELSE Response(200, "Login successful")

\* POST /auth/login
loginResponse(body) ==
    IF ~loginValidation(body) THEN ValidationFailed
    ELSE IF userByEmail(normalizeEmail(body.email)) = {}
    THEN Response(401, "Invalid email or password")
    ELSE LET x == CHOOSE y \in userByEmail(normalizeEmail(body.email)) : TRUE IN
         IF ~argon2verify(users[x].password_hash, body.password)
         THEN Response(401, "Invalid email or password")
         ELSE IF ~users[x].is_verified
         THEN Response(403, "Please verify your email before logging in")
         ELSE Response(200, "Login successful")

\* data.token of the response: generateToken(user.id), a token for that user;
\* NullId when the response carries none
loginToken(body) ==
    IF Success(loginResponse(body))
    THEN CHOOSE y \in userByEmail(normalizeEmail(body.email)) : TRUE
    ELSE NullId

login(body) ==
    IF ~Success(loginResponse(body)) THEN UNCHANGED db
    ELSE /\ Logged("User logged in", loginToken(body), NullId)
         /\ UNCHANGED <<users, nextUser, tests, bugs, nextTest, nextBug, clock, convertLog>>

\* POST /auth/resend-verification; mailOk: sendVerificationEmail went through
resendVerificationResponse(body, mailOk) ==
    IF ~forgotPasswordValidation(body) THEN ValidationFailed
    ELSE IF userByEmail(normalizeEmail(body.email)) = {}
    THEN Response(200, "If an account exists, a verification email has been sent.")
    ELSE LET x == CHOOSE y \in userByEmail(normalizeEmail(body.email)) : TRUE IN
         IF users[x].is_verified THEN Response(400, "Email is already verified")
         ELSE IF ~mailOk THEN Response(500, "Failed to send verification email")
         ELSE Response(200, "If an account exists, a verification email has been sent.")

\* the new token is stored before the e-mail is sent; the result of the
\* update is not read
resendVerification(body, ok, mailOk) ==
    LET found == userByEmail(normalizeEmail(body.email)) IN
    IF ~forgotPasswordValidation(body) \/ found = {} THEN UNCHANGED db
    ELSE LET x == CHOOSE y \in found : TRUE IN
         IF users[x].is_verified THEN UNCHANGED db
         ELSE /\ users' = IF ok THEN [users EXCEPT ![x].verification_token =
                                                      generateRandomToken(clock)]
                          ELSE users
              /\ clock' = clock + 1
              /\ Logged(IF mailOk THEN "Verification email sent"
                        ELSE "Failed to resend verification email", x, NullId)
              /\ UNCHANGED <<nextUser, tests, bugs, nextTest, nextBug, convertLog>>

\* POST /auth/forgot-password; mailOk: sendPasswordResetEmail went through
forgotPasswordResponse(body, mailOk) ==
    IF ~forgotPasswordValidation(body) THEN ValidationFailed
    ELSE IF userByEmail(normalizeEmail(body.email)) = {}
    THEN Response(200, "If an account exists, a password reset email has been sent.")
    ELSE IF ~mailOk THEN Response(500, "Failed to send password reset email")
    ELSE Response(200, "If an account exists, a password reset email has been sent.")

forgotPassword(body, ok, mailOk) ==
    LET found == userByEmail(normalizeEmail(body.email)) IN
    IF ~forgotPasswordValidation(body) \/ found = {} THEN UNCHANGED db
    ELSE LET x == CHOOSE y \in found : TRUE IN
         /\ users' = IF ok THEN [users EXCEPT ![x].reset_password_token =
                                                 generateRandomToken(clock)]
                     ELSE users
         /\ clock' = clock + 1
         /\ Logged(IF mailOk THEN "Password reset requested"
                   ELSE "Failed to send password reset email", x, NullId)
         /\ UNCHANGED <<nextUser, tests, bugs, nextTest, nextBug, convertLog>>

\* the row resetPassword finds by its token (.single(): exactly one row); a
\* NULL column matches no token
userByResetToken(us, token) ==
    {x \in DOMAIN us : token # Null /\ us[x].reset_password_token = token}

\* POST /auth/reset-password; expired: the token's expiry lies before now
resetPasswordResponse(body, expired, ok) ==
    IF ~resetPasswordValidation(body) THEN ValidationFailed
    ELSE IF Cardinality(userByResetToken(users, body.token)) # 1
    THEN Response(400, "Invalid or expired reset token")
    ELSE IF expired THEN Response(400, "Reset token has expired")
    ELSE IF ~ok THEN Response(500, "Failed to reset password")
    ELSE Response(200, "Password reset successful. You can now log in with your new password.")

\* the update of resetPassword on user x
resetPasswordUpdate(us, x, password) ==
    IF x \notin DOMAIN us THEN us
    ELSE [us EXCEPT ![x].password_hash = argon2hash(password),
                    ![x].reset_password_token = Null]

resetPassword(body, expired, ok) ==
    IF ~Success(resetPasswordResponse(body, expired, ok)) THEN UNCHANGED db
    ELSE LET x == CHOOSE y \in userByResetToken(users, body.token) : TRUE IN
         /\ users' = resetPasswordUpdate(users, x, body.password)
         /\ Logged("Password reset successful", x, NullId)
         /\ UNCHANGED <<nextUser, tests, bugs, nextTest, nextBug, clock, convertLog>>

(* --------------------------- request inputs ---------------------------- *)
\* the assignees the requests of Next name: the PM and the two QA accounts
Assignees == {1, 2, 3}
\* the store answers a call (TRUE) or fails it (FALSE)
StoreOutcomes == BOOLEAN
StoreUp == {TRUE}

CreateTestBodies ==
    {[module_platform |-> "web", test_case |-> tc, expected_result |-> TextA,
      evidence_url |-> Undefined, assigned_to |-> a] :
        tc \in {TextA}, a \in Assignees}

UpdateTestResultBodies ==
    {[status |-> st, evidence_url |-> Undefined, notes |-> Undefined] :
        st \in test_status}

UpdateTestBodies ==
    {[module_platform |-> Undefined, test_case |-> Undefined,
      expected_result |-> Undefined, evidence_url |-> Undefined, assigned_to |-> a] :
        a \in Assignees}

CreateBugBodies ==
    {[module_platform |-> "web", jam_link |-> l, description |-> TextA,
      note |-> Undefined, severity |-> Undefined] : l \in {JamUrl, OtherUrl}}

\* a request that changes the description, or one that asks for a status
UpdateBugBodies ==
    {[module_platform |-> Undefined, jam_link |-> Undefined, description |-> b[1],
      note |-> Undefined, severity |-> Undefined, status |-> b[2]] :
        b \in {<<TextB, Undefined>>, <<Undefined, "open">>, <<Undefined, "closed">>}}

ConvertBodies ==
    {[assigned_to |-> a, test_case |-> TextA, expected_result |-> TextA] :
        a \in Assignees}

\* a query string of GET /tests; NullId for an omitted page or limit
TestQuery(page, limit, status, mp, search, order) ==
    [page |-> page, limit |-> limit, status |-> status, module_platform |-> mp,
     search |-> search, order |-> order]
\* the listings the requests of Next ask for: the default one, the second
\* page of one row, the failed tests oldest first
GetTestsQueries ==
    {TestQuery(NullId, NullId, Undefined, Undefined, Undefined, Undefined),
     TestQuery(2, 1, Undefined, Undefined, Undefined, Undefined),
     TestQuery(NullId, NullId, "fail", "WEB", Undefined, "asc")}

VerificationTokens == {"vt-3", "vt-unknown"}

(* ------------------- requests that run to completion ------------------- *)
VerifyEmail == \E t \in VerificationTokens, e \in BOOLEAN, ok \in StoreUp :
    verifyEmail(t, e, ok) /\ UNCHANGED inflight
GetTests == \E u \in Actors, q \in GetTestsQueries, ok \in StoreUp :
    getTests(u, q, ok) /\ UNCHANGED inflight
GetTest == \E u \in Actors, id \in TestIds : getTest(u, id) /\ UNCHANGED inflight
CreateTest == \E u \in Actors, body \in CreateTestBodies, ok \in StoreUp :
    createTest(u, body, ok) /\ UNCHANGED inflight
UpdateTestResult ==
    \E u \in Actors, id \in TestIds, body \in UpdateTestResultBodies, ok \in StoreUp :
        updateTestResult(u, id, body, ok) /\ UNCHANGED inflight
UpdateTest ==
    \E u \in Actors, id \in TestIds, body \in UpdateTestBodies, ok \in StoreUp :
        updateTest(u, id, body, ok) /\ UNCHANGED inflight
DeleteTest == \E u \in Actors, id \in TestIds, ok \in StoreUp :
    deleteTest(u, id, ok) /\ UNCHANGED inflight
GetBug == \E u \in Actors, id \in BugIds : getBug(u, id) /\ UNCHANGED inflight
CreateBug == \E u \in Actors, body \in CreateBugBodies, ok \in StoreUp :
    createBug(u, body, ok) /\ UNCHANGED inflight
UpdateBug ==
    \E u \in Actors, id \in BugIds, body \in UpdateBugBodies, ok \in StoreUp :
        updateBug(u, id, body, ok) /\ UNCHANGED inflight
ConvertToTest ==
    \E u \in Actors, id \in BugIds, body \in ConvertBodies,
       insertOk \in StoreUp, updateOk \in StoreUp :
        convertToTest(u, id, body, insertOk, updateOk) /\ UNCHANGED inflight
DeleteBug == \E u \in Actors, id \in BugIds, clearOk \in StoreUp, ok \in StoreUp :
    deleteBug(u, id, clearOk, ok) /\ UNCHANGED inflight

Next ==
    \/ VerifyEmail
    \/ GetTests
    \/ GetTest
    \/ CreateTest
    \/ UpdateTestResult
    \/ UpdateTest
    \/ DeleteTest
    \/ GetBug
    \/ CreateBug
    \/ UpdateBug
    \/ ConvertToTest
    \/ DeleteBug

Spec == Init /\ [][Next]_vars

(* -------------- the bug-side requests, the store failing --------------- *)
DeleteTestF == \E u \in Actors, id \in TestIds, ok \in StoreOutcomes :
    deleteTest(u, id, ok) /\ UNCHANGED inflight
CreateBugF == \E u \in Actors, body \in CreateBugBodies, ok \in StoreOutcomes :
    createBug(u, body, ok) /\ UNCHANGED inflight
UpdateBugF ==
    \E u \in Actors, id \in BugIds, body \in UpdateBugBodies, ok \in StoreOutcomes :
        updateBug(u, id, body, ok) /\ UNCHANGED inflight
ConvertToTestF ==
    \E u \in Actors, id \in BugIds, body \in ConvertBodies,
       insertOk \in StoreOutcomes, updateOk \in StoreOutcomes :
        convertToTest(u, id, body, insertOk, updateOk) /\ UNCHANGED inflight
DeleteBugF ==
    \E u \in Actors, id \in BugIds, clearOk \in StoreOutcomes, ok \in StoreOutcomes :
        deleteBug(u, id, clearOk, ok) /\ UNCHANGED inflight

FailNext ==
    \/ DeleteTestF
    \/ CreateBugF
    \/ UpdateBugF
    \/ ConvertToTestF
    \/ DeleteBugF

\* every call to the store may fail
FailSpec == Init /\ [][FailNext]_vars

(* ---------------------- user management by the PM ---------------------- *)
\* the users a session token was issued to: the seeded accounts and those
\* created since; a token outlives a change or the removal of its user
TokenHolders == 1..(Cardinality(DOMAIN SeedUsers) + MaxNewUsers)

\* the accounts the PM's requests name: the verified QA, the ENG and the
\* accounts created since
ManagedUsers == TokenHolders \ {1, 3}

CreateUserBodies ==
    {[email |-> e, name |-> "New Tester", role |-> "QA", password |-> Undefined] :
        e \in {NewEmail, CapitalEmail}}
UpdateUserBodies == {[name |-> Undefined, role |-> r] : r \in user_role}

\* under UserSpec, AuthConcSpec, EvidenceSpec, AssigneeSpec and RaceSpec at
\* most MaxUserLog requests go through
UserBudget == log.n < MaxUserLog

GetUser ==
    UserBudget /\ \E u \in TokenHolders, id \in ManagedUsers : getUser(u, id) /\ UNCHANGED inflight
CreateUser ==
    UserBudget /\
    \E u \in TokenHolders, body \in CreateUserBodies, ok \in StoreUp, mailOk \in BOOLEAN :
        createUser(u, body, ok, mailOk) /\ UNCHANGED inflight
UpdateUser ==
    UserBudget /\
    \E u \in TokenHolders, id \in ManagedUsers, body \in UpdateUserBodies, ok \in StoreUp :
        updateUser(u, id, body, ok) /\ UNCHANGED inflight
DeleteUser ==
    UserBudget /\ \E u \in TokenHolders, id \in ManagedUsers, ok \in StoreUp :
        deleteUser(u, id, ok) /\ UNCHANGED inflight
\* the requests whose outcome depends on the caller's stored role and
\* verification, sent under any token ever issued
UserVerifyEmail == UserBudget /\ VerifyEmail
UserCreateTest ==
    UserBudget /\ \E u \in TokenHolders, body \in CreateTestBodies, ok \in StoreUp :
        createTest(u, body, ok) /\ UNCHANGED inflight
UserUpdateTestResult ==
    UserBudget /\
    \E u \in TokenHolders, id \in TestIds, body \in UpdateTestResultBodies, ok \in StoreUp :
        updateTestResult(u, id, body, ok) /\ UNCHANGED inflight
UserCreateBug ==
    UserBudget /\ \E u \in TokenHolders, body \in CreateBugBodies, ok \in StoreUp :
        createBug(u, body, ok) /\ UNCHANGED inflight

\* the PM's user management next to requests on tests and bugs
UserNext ==
    \/ GetUser
    \/ CreateUser
    \/ UpdateUser
    \/ DeleteUser
    \/ UserVerifyEmail
    \/ UserCreateTest
    \/ UserUpdateTestResult
    \/ UserCreateBug

UserSpec == Init /\ [][UserNext]_vars

(* ------------------- accounts: the public auth routes ------------------ *)
\* the one-shot tokens a caller can present: the seeded one and those
\* generateRandomToken hands out while the workload runs
IssuedTokens == {"vt-3"} \cup {generateRandomToken(c) : c \in 1..MaxLog}

RegisterBodies ==
    {[email |-> e, password |-> GoodPassword, name |-> "New Tester", role |-> "QA"] :
        e \in {NewEmail, CapitalEmail}}
LoginBodies ==
    {[email |-> e, password |-> p] :
        e \in {"pm@qualitysync.com", CapitalEmail, NewEmail, OtherEmail},
        p \in {"Pm-Passw0rd", "Qa2-Passw0rd", GoodPassword, OtherPassword}}
EmailBodies ==
    {[email |-> e] : e \in {"pm@qualitysync.com", CapitalEmail, NewEmail, OtherEmail}}
ResetPasswordBodies ==
    {[token |-> t, password |-> OtherPassword] : t \in IssuedTokens}

Register ==
    \E body \in RegisterBodies, ok \in StoreUp, mailOk \in BOOLEAN :
        register(body, ok, mailOk) /\ UNCHANGED inflight
Login == \E body \in LoginBodies : login(body) /\ UNCHANGED inflight
AccountVerifyEmail ==
    \E token \in IssuedTokens, expired \in BOOLEAN, ok \in StoreUp :
        verifyEmail(token, expired, ok) /\ UNCHANGED inflight
ResendVerification ==
    \E body \in EmailBodies, ok \in StoreUp, mailOk \in BOOLEAN :
        resendVerification(body, ok, mailOk) /\ UNCHANGED inflight
ForgotPassword ==
    \E body \in EmailBodies, ok \in StoreUp, mailOk \in BOOLEAN :
        forgotPassword(body, ok, mailOk) /\ UNCHANGED inflight
ResetPassword ==
    \E body \in ResetPasswordBodies, expired \in BOOLEAN, ok \in StoreUp :
        resetPassword(body, expired, ok) /\ UNCHANGED inflight

AccountNext ==
    \/ Register
    \/ Login
    \/ AccountVerifyEmail
    \/ ResendVerification
    \/ ForgotPassword
    \/ ResetPassword

AccountSpec == Init /\ [][AccountNext]_vars

(* ------------- convertToTest, one step for each await ------------------ *)
\* the request passed authenticate, authorize('PM') and the validation chain
\* and is about to read the bug; a request the middleware refuses never
\* reaches the handler
ConvertStart(s, u, id, body) ==
    /\ inflight[s] = NoReq
    /\ Gate(u, {"PM"}) = Passed
    /\ convertBugToTestValidation(id, body)
    /\ inflight' = [inflight EXCEPT ![s] =
                      [op |-> "convertToTest", pc |-> "readBug", actor |-> u,
                       id |-> id, body |-> body, bug |-> NoRow, testId |-> NullId]]
    /\ UNCHANGED db

\* await ...from('unlisted_bugs').select(...).eq('id', id).single(), then the
\* 404 and 400 guards on the row that was read
ConvertReadBug(s) ==
    LET r == inflight[s] IN
    /\ r.pc = "readBug"
    /\ inflight' = [inflight EXCEPT ![s] =
                      IF convertGuard(bugs, r.id) # Passed THEN NoReq
                      ELSE [r EXCEPT !.pc = "readAssignee", !.bug = bugs[r.id]]]
    /\ UNCHANGED db

\* await ...from('users').select(...).eq('id', assigned_to).single()
ConvertReadAssignee(s) ==
    LET r == inflight[s] IN
    /\ r.pc = "readAssignee"
    /\ inflight' = [inflight EXCEPT ![s] =
                      IF assigneeCheck(r.body.assigned_to) # Passed THEN NoReq
                      ELSE [r EXCEPT !.pc = "insert"]]
    /\ UNCHANGED db

\* await ...from('test_cases').insert(...); the insert fails when the store
\* does (ok = FALSE) or when a foreign key of the row names no row
ConvertInsert(s, ok) ==
    LET r == inflight[s]
        stored == ok /\ r.id \in DOMAIN bugs /\ r.body.assigned_to \in DOMAIN users IN
    /\ r.pc = "insert"
    /\ IF ~stored
       THEN /\ inflight' = [inflight EXCEPT ![s] = NoReq]
            /\ UNCHANGED db
       ELSE /\ nextTest <= MaxTests
            /\ tests' = (nextTest :> convertTestRow(r.bug, r.id, r.body, r.actor)) @@ tests
            /\ nextTest' = nextTest + 1
            /\ inflight' = [inflight EXCEPT ![s] =
                              [r EXCEPT !.pc = "update", !.testId = nextTest]]
            /\ UNCHANGED <<users, nextUser, bugs, nextBug, clock, convertLog, log>>

\* await ...from('unlisted_bugs').update({status: 'converted_to_test', ...}),
\* then the e-mail, the log entry and the 201
ConvertUpdate(s, ok) ==
    LET r == inflight[s] IN
    /\ r.pc = "update"
    /\ bugs' = convertBugUpdate(bugs, r.id, r.testId, clock,
                                ok /\ r.testId \in DOMAIN tests)
    /\ clock' = clock + 1
    /\ convertLog' = [convertLog EXCEPT ![r.id] = @ + 1]
    /\ Logged("Bug converted to test", r.id, r.actor)
    /\ inflight' = [inflight EXCEPT ![s] = NoReq]
    /\ UNCHANGED <<users, nextUser, tests, nextTest, nextBug>>

ConvertBegin == \E s \in Slots, u \in Actors, id \in BugIds, body \in ConvertBodies :
    ConvertStart(s, u, id, body)
ConvertBugRead == \E s \in Slots : ConvertReadBug(s)
ConvertAssigneeRead == \E s \in Slots : ConvertReadAssignee(s)
ConvertTestInsert == \E s \in Slots, ok \in StoreUp : ConvertInsert(s, ok)
ConvertBugWrite == \E s \in Slots, ok \in StoreUp : ConvertUpdate(s, ok)

\* requests interleaved at the persistence boundary: conversions step by
\* step, next to the requests that create the bugs
ConcNext ==
    \/ CreateBug
    \/ ConvertBegin
    \/ ConvertBugRead
    \/ ConvertAssigneeRead
    \/ ConvertTestInsert
    \/ ConvertBugWrite

ConcSpec == Init /\ [][ConcNext]_vars

(* ------- verifyEmail, resetPassword, register, createUser by await ----- *)
\* verifyEmail up to its update: the row is read by the token and the expiry
\* is checked; a request that is refused here changes nothing
VerifyRead(s, token, expired) ==
    /\ inflight[s] = NoReq
    /\ Success(verifyEmailResponse(token, expired, TRUE))
    /\ inflight' = [inflight EXCEPT ![s] =
                      [NoReq EXCEPT !.op = "verifyEmail", !.pc = "verifyUpdate",
                                    !.id = CHOOSE x \in userByVerificationToken(token) : TRUE,
                                    !.body = [token |-> token]]]
    /\ UNCHANGED db

\* what verifyEmail answers after its update: the token is not read again
verifyUpdateResponse(ok) ==
    IF ~ok THEN Response(500, "Failed to verify email")
    ELSE Response(200, "Email verified successfully. You can now log in.")

\* await ...update({is_verified: true, verification_token: null}).eq('id', user.id)
VerifyUpdate(s, ok) ==
    LET r == inflight[s] IN
    /\ r.pc = "verifyUpdate"
    /\ inflight' = [inflight EXCEPT ![s] = NoReq]
    /\ IF ~Success(verifyUpdateResponse(ok)) THEN UNCHANGED db
       ELSE /\ users' = IF r.id \in DOMAIN users
                        THEN [users EXCEPT ![r.id].is_verified = TRUE,
                                           ![r.id].verification_token = Null]
                        ELSE users
            /\ Logged("Email verified", r.id, NullId)
            /\ UNCHANGED <<nextUser, tests, bugs, nextTest, nextBug, clock, convertLog>>

\* resetPassword up to its update: the row is read by the token, the expiry
\* is checked and the new password is hashed
ResetRead(s, body, expired) ==
    /\ inflight[s] = NoReq
    /\ Success(resetPasswordResponse(body, expired, TRUE))
    /\ inflight' = [inflight EXCEPT ![s] =
                      [NoReq EXCEPT !.op = "resetPassword", !.pc = "resetUpdate",
                                    !.id = CHOOSE x \in userByResetToken(users, body.token) : TRUE,
                                    !.body = body]]
    /\ UNCHANGED db

\* what resetPassword answers after its update: the token is not read again
resetUpdateResponse(ok) ==
    IF ~ok THEN Response(500, "Failed to reset password")
    ELSE Response(200, "Password reset successful. You can now log in with your new password.")

\* await ...update({password_hash, reset_password_token: null}).eq('id', user.id)
ResetUpdate(s, ok) ==
    LET r == inflight[s] IN
    /\ r.pc = "resetUpdate"
    /\ inflight' = [inflight EXCEPT ![s] = NoReq]
    /\ IF ~Success(resetUpdateResponse(ok)) THEN UNCHANGED db
       ELSE /\ users' = resetPasswordUpdate(users, r.id, r.body.password)
            /\ Logged("Password reset successful", r.id, NullId)
            /\ UNCHANGED <<nextUser, tests, bugs, nextTest, nextBug, clock, convertLog>>

\* register up to its insert: no row with the address was found and the
\* password is hashed
RegisterCheck(s, body) ==
    /\ inflight[s] = NoReq
    /\ Success(registerResponse(body, TRUE))
    /\ inflight' = [inflight EXCEPT ![s] =
                      [NoReq EXCEPT !.op = "register", !.pc = "registerInsert",
                                    !.body = body]]
    /\ UNCHANGED db

\* users.email is UNIQUE: the insert returns an error when the store fails
\* or when a row holds the address by now
insertUserError(email, ok) == ~ok \/ userByEmail(email) # {}

\* what register answers after its insert
registerInsertResponse(body, ok) ==
    IF insertUserError(normalizeEmail(body.email), ok)
    THEN Response(500, "Failed to create user")
    ELSE Response(201, "Registration successful. Please check your email to verify your account.")

\* await ...insert({...}).select(...).single(), then the e-mail and the 201
RegisterInsert(s, ok, mailOk) ==
    LET r == inflight[s] IN
    /\ r.pc = "registerInsert"
    /\ inflight' = [inflight EXCEPT ![s] = NoReq]
    /\ IF ~Success(registerInsertResponse(r.body, ok))
       THEN /\ Logged("Failed to create user", NullId, NullId)
            /\ UNCHANGED <<users, nextUser, tests, bugs, nextTest, nextBug, clock, convertLog>>
       ELSE /\ nextUser <= Cardinality(DOMAIN SeedUsers) + MaxNewUsers
            /\ users' = (nextUser :> registerRow(r.body, clock)) @@ users
            /\ nextUser' = nextUser + 1
            /\ clock' = clock + 1
            /\ Logged("User registered", nextUser, NullId)
            /\ UNCHANGED <<tests, bugs, nextTest, nextBug, convertLog>>

\* createUser up to its insert
CreateUserCheck(s, u, body) ==
    /\ inflight[s] = NoReq
    /\ Success(createUserResponse(u, body, TRUE))
    /\ inflight' = [inflight EXCEPT ![s] =
                      [NoReq EXCEPT !.op = "createUser", !.pc = "createUserInsert",
                                    !.actor = u, !.body = body]]
    /\ UNCHANGED db

\* what createUser answers after its insert
createUserInsertResponse(body, ok) ==
    IF insertUserError(normalizeEmail(body.email), ok)
    THEN Response(500, "Failed to create user: " \o
                       (IF ok THEN "duplicate key value violates unique constraint"
                        ELSE "Unknown error"))
    ELSE Response(201, "User created successfully. They can now log in.")

CreateUserInsert(s, ok, mailOk) ==
    LET r == inflight[s] IN
    /\ r.pc = "createUserInsert"
    /\ inflight' = [inflight EXCEPT ![s] = NoReq]
    /\ IF ~Success(createUserInsertResponse(r.body, ok))
       THEN /\ Logged("Failed to create user", NullId, r.actor)
            /\ UNCHANGED <<users, nextUser, tests, bugs, nextTest, nextBug, clock, convertLog>>
       ELSE /\ nextUser <= Cardinality(DOMAIN SeedUsers) + MaxNewUsers
            /\ users' = (nextUser :>
                           UserRow(normalizeEmail(r.body.email),
                                   argon2hash(IF Falsy(r.body.password) THEN TempPassword
                                              ELSE r.body.password),
                                   r.body.role, TRUE, Null)) @@ users
            /\ nextUser' = nextUser + 1
            /\ Logged("User created by PM", nextUser, r.actor)
            /\ UNCHANGED <<tests, bugs, nextTest, nextBug, clock, convertLog>>

ConcResetBodies ==
    {[token |-> t, password |-> p] : t \in IssuedTokens, p \in {GoodPassword, OtherPassword}}

VerifyBegin ==
    \E s \in Slots, token \in IssuedTokens, expired \in BOOLEAN : VerifyRead(s, token, expired)
VerifyWrite == UserBudget /\ \E s \in Slots, ok \in StoreUp : VerifyUpdate(s, ok)
ResetBegin ==
    \E s \in Slots, body \in ConcResetBodies, expired \in BOOLEAN : ResetRead(s, body, expired)
ResetWrite == UserBudget /\ \E s \in Slots, ok \in StoreUp : ResetUpdate(s, ok)
RegisterBegin == \E s \in Slots, body \in RegisterBodies : RegisterCheck(s, body)
RegisterWrite ==
    UserBudget /\ \E s \in Slots, ok \in StoreUp, mailOk \in BOOLEAN : RegisterInsert(s, ok, mailOk)
CreateUserBegin ==
    \E s \in Slots, u \in Actors, body \in CreateUserBodies : CreateUserCheck(s, u, body)
CreateUserWrite ==
    UserBudget /\ \E s \in Slots, ok \in StoreUp, mailOk \in BOOLEAN : CreateUserInsert(s, ok, mailOk)
\* forgotPassword issues the reset tokens; its steps are not split
ConcForgotPassword ==
    UserBudget /\ \E body \in EmailBodies, ok \in StoreUp, mailOk \in BOOLEAN :
        forgotPassword(body, ok, mailOk) /\ UNCHANGED inflight

AuthConcNext ==
    \/ VerifyBegin
    \/ VerifyWrite
    \/ ResetBegin
    \/ ResetWrite
    \/ RegisterBegin
    \/ RegisterWrite
    \/ CreateUserBegin
    \/ CreateUserWrite
    \/ ConcForgotPassword

AuthConcSpec == Init /\ [][AuthConcNext]_vars

(* ------------- requests that carry evidence links and texts ------------ *)
\* what a body can carry as an evidence link: nothing, the empty string, a
\* link to the provider, a link elsewhere, the bare domain, a sentence
EvidenceLinks == {Undefined, "", JamUrl, JamUrl2, OtherUrl, BareJam, JamText}

EvidenceCreateTestBodies ==
    {[module_platform |-> "web", test_case |-> TextA, expected_result |-> TextA,
      evidence_url |-> l, assigned_to |-> 2] : l \in EvidenceLinks}
EvidenceUpdateTestBodies ==
    {[module_platform |-> mp, test_case |-> tc, expected_result |-> Undefined,
      evidence_url |-> l, assigned_to |-> a] :
        mp \in {Undefined, "api"}, tc \in {Undefined, TextB}, l \in EvidenceLinks,
        a \in {NullId, 2, 3}}
EvidenceResultBodies ==
    {[status |-> st, evidence_url |-> l, notes |-> n] :
        st \in {"pass", "fail"}, l \in EvidenceLinks, n \in {Undefined, "", TextB}}
EvidenceCreateBugBodies ==
    {[module_platform |-> "web", jam_link |-> l, description |-> TextA,
      note |-> Undefined, severity |-> Undefined] : l \in EvidenceLinks}
EvidenceUpdateBugBodies ==
    {[module_platform |-> Undefined, jam_link |-> l, description |-> dsc,
      note |-> Undefined, severity |-> Undefined, status |-> Undefined] :
        l \in EvidenceLinks, dsc \in {Undefined, TextB}}
\* the callers: the PM and the verified QA
EvidenceActors == {1, 2}

EvidenceCreateTest ==
    UserBudget /\ \E u \in EvidenceActors, body \in EvidenceCreateTestBodies, ok \in StoreUp :
        createTest(u, body, ok) /\ UNCHANGED inflight
EvidenceUpdateTest ==
    UserBudget /\
    \E u \in EvidenceActors, id \in TestIds, body \in EvidenceUpdateTestBodies, ok \in StoreUp :
        updateTest(u, id, body, ok) /\ UNCHANGED inflight
EvidenceUpdateTestResult ==
    UserBudget /\
    \E u \in EvidenceActors, id \in TestIds, body \in EvidenceResultBodies, ok \in StoreUp :
        updateTestResult(u, id, body, ok) /\ UNCHANGED inflight
EvidenceCreateBug ==
    UserBudget /\ \E u \in EvidenceActors, body \in EvidenceCreateBugBodies, ok \in StoreUp :
        createBug(u, body, ok) /\ UNCHANGED inflight
EvidenceUpdateBug ==
    UserBudget /\
    \E u \in EvidenceActors, id \in BugIds, body \in EvidenceUpdateBugBodies, ok \in StoreUp :
        updateBug(u, id, body, ok) /\ UNCHANGED inflight
EvidenceConvertToTest ==
    UserBudget /\
    \E u \in EvidenceActors, id \in BugIds, body \in ConvertBodies,
       insertOk \in StoreUp, updateOk \in StoreUp :
        convertToTest(u, id, body, insertOk, updateOk) /\ UNCHANGED inflight

EvidenceNext ==
    \/ EvidenceCreateTest
    \/ EvidenceUpdateTest
    \/ EvidenceUpdateTestResult
    \/ EvidenceCreateBug
    \/ EvidenceUpdateBug
    \/ EvidenceConvertToTest

EvidenceSpec == Init /\ [][EvidenceNext]_vars

(* ------------- assignments next to the PM's user management ------------ *)
AssigneeCreateTest ==
    UserBudget /\ \E u \in Actors, body \in CreateTestBodies, ok \in StoreUp :
        createTest(u, body, ok) /\ UNCHANGED inflight
AssigneeUpdateTest ==
    UserBudget /\
    \E u \in Actors, id \in TestIds, body \in UpdateTestBodies, ok \in StoreUp :
        updateTest(u, id, body, ok) /\ UNCHANGED inflight
AssigneeCreateBug ==
    UserBudget /\ \E u \in Actors, body \in CreateBugBodies, ok \in StoreUp :
        createBug(u, body, ok) /\ UNCHANGED inflight
AssigneeConvertToTest ==
    UserBudget /\
    \E u \in Actors, id \in BugIds, body \in ConvertBodies,
       insertOk \in StoreUp, updateOk \in StoreUp :
        convertToTest(u, id, body, insertOk, updateOk) /\ UNCHANGED inflight
AssigneeUpdateUser ==
    UserBudget /\
    \E u \in Actors, id \in UserIds, body \in UpdateUserBodies, ok \in StoreUp :
        updateUser(u, id, body, ok) /\ UNCHANGED inflight
AssigneeDeleteUser ==
    UserBudget /\ \E u \in Actors, id \in UserIds, ok \in StoreUp :
        deleteUser(u, id, ok) /\ UNCHANGED inflight

AssigneeNext ==
    \/ AssigneeCreateTest
    \/ AssigneeUpdateTest
    \/ AssigneeCreateBug
    \/ AssigneeConvertToTest
    \/ AssigneeUpdateUser
    \/ AssigneeDeleteUser

AssigneeSpec == Init /\ [][AssigneeNext]_vars

(* --------- updateTestResult and updateBug, one step for each await ----- *)
\* updateTestResult up to its update: the row is read by id and the caller
\* is compared with its assigned_to; a request refused here changes nothing
ResultRead(s, u, id, body) ==
    /\ inflight[s] = NoReq
    /\ Success(updateTestResultResponse(u, id, body, TRUE))
    /\ inflight' = [inflight EXCEPT ![s] =
                      [NoReq EXCEPT !.op = "updateTestResult", !.pc = "resultUpdate",
                                    !.actor = u, !.id = id, !.body = body]]
    /\ UNCHANGED db

\* what updateTestResult answers after its update: .single() finds no row
\* when the test is gone; assigned_to is not read again
resultUpdateResponse(ts, id, ok) ==
    IF ~ok \/ id \notin DOMAIN ts THEN Response(500, "Failed to update test result")
    ELSE Response(200, "Test result updated successfully")

\* await ...update({status, evidence_url, notes}).eq('id', id)
ResultUpdate(s, ok) ==
    LET r == inflight[s] IN
    /\ r.pc = "resultUpdate"
    /\ inflight' = [inflight EXCEPT ![s] = NoReq]
    /\ IF ~Success(resultUpdateResponse(tests, r.id, ok)) THEN UNCHANGED db
       ELSE /\ tests' = [tests EXCEPT ![r.id] = updateTestResultData(@, r.body)]
            /\ Logged("Test result updated", r.id, r.actor)
            /\ UNCHANGED <<users, nextUser, bugs, nextTest, nextBug, clock, convertLog>>

\* updateBug up to its update: the row is read by id and a QA caller is
\* checked against created_by and the converted status
BugUpdateRead(s, u, id, body) ==
    /\ inflight[s] = NoReq
    /\ Success(updateBugResponse(u, id, body, TRUE))
    /\ inflight' = [inflight EXCEPT ![s] =
                      [NoReq EXCEPT !.op = "updateBug", !.pc = "bugUpdate",
                                    !.actor = u, !.id = id, !.body = body]]
    /\ UNCHANGED db

\* what updateBug answers after its update; the status is not read again
bugUpdateResponse(bs, id, ok) ==
    IF ~ok \/ id \notin DOMAIN bs THEN Response(500, "Failed to update bug")
    ELSE Response(200, "Bug updated successfully")

\* await ...update(updateData).eq('id', id); req.user is the row authenticate
\* read when the request came in
BugUpdateWrite(s, role, ok) ==
    LET r == inflight[s] IN
    /\ r.pc = "bugUpdate"
    /\ inflight' = [inflight EXCEPT ![s] = NoReq]
    /\ IF ~Success(bugUpdateResponse(bugs, r.id, ok)) THEN UNCHANGED db
       ELSE /\ bugs' = [bugs EXCEPT ![r.id] = updateBugData(@, r.body, role)]
            /\ Logged("Bug updated", r.id, r.actor)
            /\ UNCHANGED <<users, nextUser, tests, nextTest, nextBug, clock, convertLog>>

\* the callers of the racing requests: the PM and the verified QA
RaceActors == {1, 2}
RaceResultBodies ==
    {[status |-> st, evidence_url |-> Undefined, notes |-> n] :
        st \in {"pass", "fail"}, n \in {Undefined, TextB}}

ResultBegin ==
    \E s \in Slots, u \in RaceActors, id \in TestIds, body \in RaceResultBodies :
        ResultRead(s, u, id, body)
ResultWrite == UserBudget /\ \E s \in Slots, ok \in StoreUp : ResultUpdate(s, ok)
BugUpdateBegin ==
    \E s \in Slots, u \in RaceActors, id \in BugIds, body \in UpdateBugBodies :
        BugUpdateRead(s, u, id, body)
\* no request changes a role under RaceSpec: the caller's role is the stored one
BugUpdateEnd ==
    UserBudget /\ \E s \in Slots, ok \in StoreUp :
        BugUpdateWrite(s, users[inflight[s].actor].role, ok)
RaceCreateTest ==
    UserBudget /\ \E u \in RaceActors, body \in CreateTestBodies, ok \in StoreUp :
        createTest(u, body, ok) /\ UNCHANGED inflight
RaceUpdateTest ==
    UserBudget /\
    \E u \in RaceActors, id \in TestIds, body \in UpdateTestBodies, ok \in StoreUp :
        updateTest(u, id, body, ok) /\ UNCHANGED inflight
RaceCreateBug ==
    UserBudget /\ \E u \in RaceActors, body \in CreateBugBodies, ok \in StoreUp :
        createBug(u, body, ok) /\ UNCHANGED inflight
RaceConvertToTest ==
    UserBudget /\
    \E u \in RaceActors, id \in BugIds, body \in ConvertBodies,
       insertOk \in StoreUp, updateOk \in StoreUp :
        convertToTest(u, id, body, insertOk, updateOk) /\ UNCHANGED inflight

RaceNext ==
    \/ ResultBegin
    \/ ResultWrite
    \/ BugUpdateBegin
    \/ BugUpdateEnd
    \/ RaceCreateTest
    \/ RaceUpdateTest
    \/ RaceCreateBug
    \/ RaceConvertToTest

RaceSpec == Init /\ [][RaceNext]_vars

(* ============================== claims ================================= *)
ClientError(r) == r.status >= 400 /\ r.status <= 499
DerivedTests(b) == {t \in DOMAIN tests : tests[t].source_bug_id = b}
VerifiedQA(a) == a \in DOMAIN users /\ users[a].role = "QA" /\ users[a].is_verified
ResultStatuses == {"pass", "fail", "escalated"}
\* ids that name no row: ids are handed out from 1 and never above the bound
AbsentTest == MaxTests + 1
AbsentBug == MaxBugs + 1

\* C1: conversion is exactly-once: once a convertToTest on a bug has
\* succeeded, every further convertToTest on that bug is answered with a 4xx
\* and exactly one conversion of the bug has gone through.
C1_ConversionExactlyOnce ==
    \A b \in DOMAIN bugs :
        convertLog[b] >= 1 =>
            /\ convertLog[b] = 1
            /\ \A u \in Actors, body \in ConvertBodies :
                   ClientError(convertToTestResponse(u, b, body, TRUE))

\* C2: two convertToTest requests on the same bug whose store calls
\* interleave never both succeed: at most one conversion of a bug goes
\* through and at most one test is derived from it.
C2_ConcurrentConversionsExclude ==
    \A b \in BugIds : convertLog[b] <= 1 /\ Cardinality(DerivedTests(b)) <= 1

\* C3: steps 3 and 4 of the conversion are one unit: a step that inserts a
\* test derived from a bug leaves that bug converted_to_test (or the insert
\* does not stay).
C3_ConversionAtomic ==
    [][\A b \in DOMAIN bugs :
          (\E t \in DOMAIN tests' \ DOMAIN tests : tests'[t].source_bug_id = b)
              => (b \in DOMAIN bugs' /\ bugs'[b].status = "converted_to_test")]_vars

\* C4: converted_to_test is terminal: while the bug exists, no request
\* changes its status once it is converted_to_test.
C4_ConvertedIsTerminal ==
    [][\A b \in DOMAIN bugs \cap DOMAIN bugs' :
          bugs[b].status = "converted_to_test"
              => bugs'[b].status = "converted_to_test"]_vars

\* C5: relationship invariant: at most one test has a given bug as its
\* source_bug_id (that a test has at most one source bug is the column).
C5_AtMostOneDerivedTest ==
    \A b \in BugIds : Cardinality(DerivedTests(b)) <= 1

\* C6: a request that creates a test or changes a test's assigned_to goes
\* through only if the new assignee is an existing, verified QA user.
C6_AssigneeIsVerifiedQA ==
    [][\A t \in DOMAIN tests' :
          (t \notin DOMAIN tests \/ tests[t].assigned_to # tests'[t].assigned_to)
              => VerifiedQA(tests'[t].assigned_to)]_vars

\* C7: only the current assignee changes a test's status: every step that
\* changes the status of a test is an updateTestResult of the user the test
\* is assigned to, who has role QA; the same request by anyone else (a PM, an
\* ENG, another QA, the former assignee after a reassignment) is refused
\* with a 4xx.
C7_OthersAreRefused ==
    \A u \in Actors, t \in DOMAIN tests, body \in UpdateTestResultBodies :
        (users[u].role # "QA" \/ tests[t].assigned_to # u)
            => ClientError(updateTestResultResponse(u, t, body, TRUE))

C7_OnlyAssigneeChangesStatus ==
    /\ []C7_OthersAreRefused
    /\ [][\A t \in DOMAIN tests \cap DOMAIN tests' :
            tests'[t].status # tests[t].status
                => /\ LastLog(log', "Test result updated", t, tests[t].assigned_to)
                   /\ users[tests[t].assigned_to].role = "QA"]_vars

\* C7 witness: a test whose result was recorded has been reassigned by the PM
\* to the other QA; it kept its status, and its former assignee is refused.
C7_Witness ==
    \E t \in DOMAIN tests :
        /\ tests[t].status = "fail"
        /\ tests[t].assigned_to = 3
        /\ LastLog(log, "Test case updated", t, 1)
        /\ updateTestResultResponse(2, t, [status |-> "pass", evidence_url |-> Undefined,
                                           notes |-> Undefined], TRUE).status = 403

\* C8: a test's status never returns to pending: no step takes an existing
\* test from pass, fail or escalated to pending, while the assignee, sending
\* the request under a session authenticate accepts, can record each of the
\* three from each of them.
C8_AssigneeCanRerecord ==
    \A t \in DOMAIN tests, st \in ResultStatuses :
        LET body == [status |-> st, evidence_url |-> Undefined, notes |-> Undefined] IN
        (tests[t].status \in ResultStatuses /\ authenticate(tests[t].assigned_to) = Passed)
            => /\ Success(updateTestResultResponse(tests[t].assigned_to, t, body, TRUE))
               /\ updateTestResultData(tests[t], body).status = st

C8_NeverBackToPending ==
    /\ []C8_AssigneeCanRerecord
    /\ [][\A t \in DOMAIN tests \cap DOMAIN tests' :
            tests[t].status # "pending" => tests'[t].status # "pending"]_vars

\* C8 witness: the assignee has just recorded escalated on the
\* only test there is, on which an earlier update had already succeeded.
C8_Witness ==
    \E t \in DOMAIN tests :
        /\ tests[t].status = "escalated"
        /\ authenticate(tests[t].assigned_to) = Passed
        /\ LastLog(log, "Test result updated", t, tests[t].assigned_to)
        /\ log.n >= 3 /\ nextTest = 2 /\ nextBug = 1 /\ users = SeedUsers

\* C9: denial never leaks existence: a QA asking for a test not assigned to
\* them or a bug they did not create, and an ENG asking for a test that is
\* neither fail nor escalated, get the response of an id that does not exist.
C9_DenialDoesNotLeakExistence ==
    /\ \A u \in Actors, t \in DOMAIN tests :
          (authenticate(u) = Passed
             /\ \/ (users[u].role = "QA" /\ tests[t].assigned_to # u)
                \/ (users[u].role = "ENG" /\ tests[t].status \notin {"fail", "escalated"}))
              => /\ getTestResponse(u, t) = getTestResponse(u, AbsentTest)
                 /\ getTestResponse(u, t).status = 404
    /\ \A u \in Actors, b \in DOMAIN bugs :
          (authenticate(u) = Passed /\ users[u].role = "QA" /\ bugs[b].created_by # u)
              => /\ getBugResponse(u, b) = getBugResponse(u, AbsentBug)
                 /\ getBugResponse(u, b).status = 404

\* C10: an ENG user never updates a bug report: no step whose log entry is
\* a 'Bug updated' by a user with role ENG changes any field of a bug.
C10_EngNeverUpdatesBug ==
    [][(log' # log /\ log'.event = "Bug updated" /\ log'.by \in DOMAIN users
            /\ users[log'.by].role = "ENG")
          => bugs' = bugs]_vars

\* the ids of a page
Range(f) == {f[i] : i \in DOMAIN f}
\* an unfiltered listing: page p of pages of the given size
Unfiltered(p, limit) == TestQuery(p, limit, Undefined, Undefined, Undefined, Undefined)
\* the tests user u gets by asking for every page of the unfiltered listing
AllPages(u, limit) ==
    UNION {Range(getTestsData(u, Unfiltered(p, limit), TRUE)) : p \in 1..(MaxTests + 1)}
\* the query strings the scope claims range over
ScopeQueries ==
    {TestQuery(pl[1], pl[2], st, mp, sr, od) :
        pl \in {<<NullId, NullId>>, <<1, 1>>, <<2, 1>>},
        st \in {Undefined} \cup test_status,
        mp \in {Undefined, "WEB"},
        sr \in {Undefined, "checkout"},
        od \in {Undefined, "asc"}}

\* C11: QA scope invariant: for every QA user with a session and every test,
\* the unfiltered listing of that user, all pages taken together, contains
\* the test if and only if the test is assigned to that user.
C11_QAScope ==
    \A u \in DOMAIN users, limit \in {NullId, 1, 2} :
        (users[u].role = "QA" /\ authenticate(u) = Passed)
            => AllPages(u, limit) = {t \in DOMAIN tests : tests[t].assigned_to = u}

\* C11 witness: after the PM's updateTest on it a test is assigned to the
\* second QA, who has a session: it is in that user's listing and not in the
\* first QA's, which holds another test.
C11_Witness ==
    \E t \in DOMAIN tests :
        /\ tests[t].assigned_to = 3 /\ authenticate(3) = Passed
        /\ LastLog(log, "Test case updated", t, 1)
        /\ t \in AllPages(3, 1) /\ t \notin AllPages(2, 1)
        /\ \E t2 \in DOMAIN tests : t2 \in AllPages(2, 1)

\* C12: ENG scope invariant: every test a user with role ENG is given, by
\* getTests under any filters or by getTest, is fail or escalated.
C12_ENGScope ==
    \A u \in DOMAIN users :
        users[u].role = "ENG" =>
            /\ \A q \in ScopeQueries : \A t \in Range(getTestsData(u, q, TRUE)) :
                    tests[t].status \in {"fail", "escalated"}
            /\ \A t \in DOMAIN tests :
                    Success(getTestResponse(u, t)) => tests[t].status \in {"fail", "escalated"}

\* C12 witness: with a pending, a failed and no other test stored, the ENG
\* listing holds the failed one only and getTest refuses the pending one.
C12_Witness ==
    \E t1, t2 \in DOMAIN tests :
        /\ tests[t1].status = "fail" /\ tests[t2].status = "pending"
        /\ Range(getTestsData(4, Unfiltered(NullId, NullId), TRUE)) = {t1}
        /\ Success(getTestResponse(4, t1)) /\ ~Success(getTestResponse(4, t2))

\* requests to PUT /bugs/:id that ask for a change of each content field and
\* of the status
ContentUpdateBodies ==
    {[module_platform |-> mp, jam_link |-> jl, description |-> ds, note |-> nt,
      severity |-> sv, status |-> st] :
        mp \in {Undefined, "ios"}, jl \in {Undefined, JamUrl2},
        ds \in {Undefined, TextB}, nt \in {Undefined, TextB},
        sv \in {Undefined, "high"}, st \in {Undefined, "open"}}

\* the QA who created a converted bug is refused whatever the request asks for
C15_CreatorIsRefused ==
    \A b \in DOMAIN bugs, body \in ContentUpdateBodies :
        LET u == bugs[b].created_by IN
        (bugs[b].status = "converted_to_test" /\ u \in DOMAIN users /\ users[u].role = "QA")
            => ClientError(updateBugResponse(u, b, body, TRUE))

\* C15: terminal state for the creator: once a bug is converted_to_test,
\* every PUT /bugs/:id by the QA user who created it fails, and no updateBug
\* by that user changes the bug's status or any content field.
C15_TerminalForCreator ==
    /\ []C15_CreatorIsRefused
    /\ [][\A b \in DOMAIN bugs \cap DOMAIN bugs' :
            (/\ bugs[b].status = "converted_to_test"
             /\ log' # log /\ LastLog(log', "Bug updated", b, bugs[b].created_by)
             /\ bugs[b].created_by \in DOMAIN users
             /\ users[bugs[b].created_by].role = "QA")
                => bugs'[b] = bugs[b]]_vars

\* C15 witness: the bug QA 2 created has just been converted, and that user's
\* request to change its description is answered 400.
C15_Witness ==
    \E b \in DOMAIN bugs :
        /\ bugs[b].status = "converted_to_test" /\ bugs[b].created_by = 2
        /\ LastLog(log, "Bug converted to test", b, 1)
        /\ updateBugResponse(2, b, [module_platform |-> Undefined, jam_link |-> Undefined,
                                    description |-> TextB, note |-> Undefined,
                                    severity |-> Undefined, status |-> Undefined],
                             TRUE).status = 400

\* well-formed bodies of role-restricted requests
AnyCreateTestBody ==
    [module_platform |-> "web", test_case |-> TextA, expected_result |-> TextA,
     evidence_url |-> Undefined, assigned_to |-> 2]
AnyCreateBugBody ==
    [module_platform |-> "web", jam_link |-> JamUrl, description |-> TextA,
     note |-> Undefined, severity |-> Undefined]

\* C13: session resolution uses the stored user at request time: in every
\* state, in particular right after a PM changed a user's role or deleted
\* the user, a request under that user's token is answered 401 if the user
\* is no longer stored, 403 if the stored user is unverified, and otherwise
\* passes or fails the role check of the route by the stored role.
C13_SessionResolution ==
    \A u \in TokenHolders :
        /\ u \notin DOMAIN users =>
              /\ authenticate(u).status = 401
              /\ createTestResponse(u, AnyCreateTestBody, TRUE).status = 401
              /\ createBugResponse(u, AnyCreateBugBody, TRUE).status = 401
              /\ getUserResponse(u, 1).status = 401
        /\ (u \in DOMAIN users /\ ~users[u].is_verified) =>
              /\ authenticate(u).status = 403
              /\ createTestResponse(u, AnyCreateTestBody, TRUE).status = 403
              /\ createBugResponse(u, AnyCreateBugBody, TRUE).status = 403
              /\ getUserResponse(u, 1).status = 403
        /\ (u \in DOMAIN users /\ users[u].is_verified) =>
              /\ authenticate(u) = Passed
              /\ \A roles \in SUBSET user_role :
                    (Gate(u, roles) = Passed) <=> (users[u].role \in roles)
              /\ (createTestResponse(u, AnyCreateTestBody, TRUE).status = 403)
                    <=> (users[u].role # "PM")
              /\ (createBugResponse(u, AnyCreateBugBody, TRUE).status = 403)
                    <=> (users[u].role # "QA")
              /\ (getUserResponse(u, 1).status = 403) <=> (users[u].role # "PM")

\* C13 witness: the PM made QA 2 a PM and deleted the ENG; under the token
\* issued to 2 as a QA a test has just been created, and the ENG's token is
\* answered 401.
C13_Witness ==
    /\ 2 \in DOMAIN users /\ users[2].role = "PM" /\ SeedUsers[2].role = "QA"
    /\ 4 \notin DOMAIN users /\ authenticate(4).status = 401
    /\ LastLog(log, "Test case created", nextTest - 1, 2)

\* log entries of the handlers behind authorize('PM') and authorize('QA')
PMEvents ==
    {"Test case created", "Test case updated", "Test case deleted",
     "Bug converted to test", "Bug deleted",
     "User created by PM", "User updated", "User deleted"}
QAEvents == {"Test result updated", "Unlisted bug created"}
\* a body no validation chain accepts
EmptyBody ==
    [module_platform |-> Undefined, test_case |-> Undefined, expected_result |-> Undefined,
     evidence_url |-> Undefined, assigned_to |-> NullId, status |-> Undefined,
     notes |-> Undefined, jam_link |-> Undefined, description |-> Undefined,
     note |-> Undefined, severity |-> Undefined, email |-> NotEmail, name |-> Undefined,
     role |-> Undefined, password |-> Undefined]
Forbidden(r) == r.status = 403

\* a caller with a session whose role is not the route's gets 403, whatever
\* the id and the body
C14_MismatchIsForbidden ==
    \A u \in DOMAIN users :
        /\ (authenticate(u) = Passed /\ users[u].role # "PM") =>
              /\ \A body \in CreateTestBodies \cup {EmptyBody} :
                    Forbidden(createTestResponse(u, body, TRUE))
              /\ \A id \in TestIds \cup {AbsentTest}, body \in UpdateTestBodies \cup {EmptyBody} :
                    Forbidden(updateTestResponse(u, id, body, TRUE))
              /\ \A id \in TestIds \cup {AbsentTest} : Forbidden(deleteTestResponse(u, id, TRUE))
              /\ \A id \in BugIds \cup {AbsentBug}, body \in ConvertBodies \cup {EmptyBody} :
                    Forbidden(convertToTestResponse(u, id, body, TRUE))
              /\ \A id \in BugIds \cup {AbsentBug} : Forbidden(deleteBugResponse(u, id, TRUE))
              /\ Forbidden(getUsersResponse(u, TRUE))
              /\ Forbidden(getQATestersResponse(u, TRUE))
              /\ \A id \in TokenHolders : Forbidden(getUserResponse(u, id))
              /\ \A body \in CreateUserBodies \cup {EmptyBody} :
                    Forbidden(createUserResponse(u, body, TRUE))
              /\ \A id \in TokenHolders, body \in UpdateUserBodies \cup {EmptyBody} :
                    Forbidden(updateUserResponse(u, id, body, TRUE))
              /\ \A id \in TokenHolders : Forbidden(deleteUserResponse(u, id, TRUE))
        /\ (authenticate(u) = Passed /\ users[u].role # "QA") =>
              /\ \A id \in TestIds \cup {AbsentTest},
                     body \in UpdateTestResultBodies \cup {EmptyBody} :
                    Forbidden(updateTestResultResponse(u, id, body, TRUE))
              /\ \A body \in CreateBugBodies \cup {EmptyBody} :
                    Forbidden(createBugResponse(u, body, TRUE))

\* C14: whole-action role mismatches are refused with 403 before any state
\* change: the requests reserved to PM (create, update, delete a test;
\* convert, delete a bug; everything under /users) and those reserved to QA
\* (record a result, create a bug) answer 403 to any other role, and every
\* change such a handler makes was asked for by a user of the route's role.
C14_RoleMismatchRefused ==
    /\ []C14_MismatchIsForbidden
    /\ [][log' # log =>
            /\ log'.event \in PMEvents => users[log'.by].role = "PM"
            /\ log'.event \in QAEvents => users[log'.by].role = "QA"]_vars

\* C14 witness: QA 2 has just recorded a result on the test assigned to them;
\* that user's PUT /tests/:id is answered 403 for that test as for one assigned
\* to somebody else.
C14_Witness ==
    \E t1, t2 \in DOMAIN tests :
        /\ tests[t1].assigned_to = 2 /\ tests[t2].assigned_to # 2
        /\ LastLog(log, "Test result updated", t1, 2)
        /\ \A t \in {t1, t2}, body \in UpdateTestBodies :
              Forbidden(updateTestResponse(2, t, body, TRUE))

\* the users whose e-mail and password a login body carries
CredentialsOf(body) ==
    {x \in DOMAIN users : /\ users[x].email = normalizeEmail(body.email)
                          /\ argon2verify(users[x].password_hash, body.password)}

\* C16: login answers 401 with one and the same response for an unknown
\* e-mail and for a wrong password, 403 when the credentials are those of a
\* user with is_verified = false, and carries a session token exactly when
\* the credentials are valid and the user is verified; a token is never
\* issued for an unverified user.
C16_LoginOutcomes ==
    \A body \in LoginBodies :
        /\ CredentialsOf(body) = {} =>
               /\ loginResponse(body) = Response(401, "Invalid email or password")
               /\ loginToken(body) = NullId
        /\ \A x \in CredentialsOf(body) :
               IF users[x].is_verified
               THEN loginResponse(body).status = 200 /\ loginToken(body) = x
               ELSE loginResponse(body).status = 403 /\ loginToken(body) = NullId
        /\ loginToken(body) # NullId => users[loginToken(body)].is_verified

\* the PM has logged in while the second QA, with the right password, is
\* refused for want of verification, and a wrong password and an unknown
\* address are both refused
C16_Witness ==
    /\ LastLog(log, "User logged in", 1, NullId)
    /\ ~users[3].is_verified
    /\ CredentialsOf([email |-> CapitalEmail, password |-> "Qa2-Passw0rd"]) = {3}
    /\ CredentialsOf([email |-> CapitalEmail, password |-> OtherPassword]) = {}
    /\ userByEmail(OtherEmail) = {}

\* the token a request in flight presented is no longer the one its user holds
TokenUsedUp(r) ==
    \/ r.pc = "verifyUpdate" /\ userByVerificationToken(r.body.token) # {r.id}
    \/ r.pc = "resetUpdate" /\ userByResetToken(users, r.body.token) # {r.id}

\* what the request in flight is answered when its last store call is made
FinishResponse(r) ==
    IF r.pc = "verifyUpdate" THEN verifyUpdateResponse(TRUE) ELSE resetUpdateResponse(TRUE)

\* C17: one-shot tokens are single-use: a verifyEmail or resetPassword call
\* whose token is held by no user is answered 400, and a call that runs
\* while another call with the same token succeeds is answered 400 as well
\* and changes no user field, so the credential hash is replaced at most
\* once for each reset token.
C17_TokensSingleUse ==
    /\ [](\A t \in IssuedTokens :
            /\ userByVerificationToken(t) = {} => verifyEmailResponse(t, FALSE, TRUE).status = 400
            /\ \A body \in ConcResetBodies :
                   userByResetToken(users, body.token) = {} =>
                       resetPasswordResponse(body, FALSE, TRUE).status = 400)
    /\ [][\A s \in Slots :
             (inflight'[s] = NoReq /\ TokenUsedUp(inflight[s])) =>
                 (FinishResponse(inflight[s]).status = 400 /\ users' = users)]_vars

\* C18: forgotPassword answers every well-formed address with the same 200,
\* whether a user holds the address or not and whatever becomes of the
\* e-mail, so the response never tells whether the user exists.
C18_ForgotPasswordUniform ==
    \A body \in EmailBodies, mailOk \in BOOLEAN :
        forgotPasswordResponse(body, mailOk) =
            Response(200, "If an account exists, a password reset email has been sent.")

\* C19: a notification that fails never surfaces: resendVerification and
\* forgotPassword answer the same whether the e-mail went out or not, and
\* the token they stored stays stored. (register, verifyEmail and createUser
\* send inside try/catch, the assignment e-mail of createTest, updateTest
\* and convertToTest never throws: their responses take no mailOk.)
C19_NotificationFailureHidden ==
    /\ [](\A body \in EmailBodies :
            /\ resendVerificationResponse(body, FALSE) = resendVerificationResponse(body, TRUE)
            /\ forgotPasswordResponse(body, FALSE) = forgotPasswordResponse(body, TRUE))
    /\ [][\A x \in DOMAIN users :
             /\ (log' # log /\ LastLog(log', "Failed to send password reset email", x, NullId)) =>
                    users'[x].reset_password_token = generateRandomToken(clock)
             /\ (log' # log /\ LastLog(log', "Failed to resend verification email", x, NullId)) =>
                    users'[x].verification_token = generateRandomToken(clock)]_vars

\* no two users share an e-mail address
UniqueEmails == \A x, y \in DOMAIN users : users[x].email = users[y].email => x = y

\* what a register or createUser request in flight is answered by its insert
InsertResponse(r) ==
    IF r.pc = "registerInsert" THEN registerInsertResponse(r.body, TRUE)
    ELSE createUserInsertResponse(r.body, TRUE)

\* C20: no two users ever share an e-mail address, and a register or
\* createUser request for an address in use is answered 409 and creates no
\* user, also when the address was taken only after the request had looked
\* for it and the insert is stopped by the UNIQUE constraint.
C20_EmailUniqueWithConflict ==
    /\ [](/\ UniqueEmails
          /\ \A body \in RegisterBodies :
                 userByEmail(normalizeEmail(body.email)) # {} =>
                     registerResponse(body, TRUE).status = 409
          /\ \A body \in CreateUserBodies :
                 userByEmail(normalizeEmail(body.email)) # {} =>
                     createUserResponse(1, body, TRUE).status = 409)
    /\ [][\A s \in Slots :
             (/\ inflight[s].pc \in {"registerInsert", "createUserInsert"}
              /\ inflight'[s] = NoReq
              /\ userByEmail(normalizeEmail(inflight[s].body.email)) # {}) =>
                 (InsertResponse(inflight[s]).status = 409 /\ users' = users)]_vars

\* a syntactically valid absolute URL: it has a scheme and a host
isAbsoluteURL(v) == v \in {JamUrl, JamUrl2, OtherUrl}
\* the evidence-link contract on a stored value, and on a value in a body
\* (an omitted or empty one asks for no link)
EvidenceLinkOk(v) == v = Null \/ (isAbsoluteURL(v) /\ includesJam(v))
EvidenceInputOk(v) == Falsy(v) \/ EvidenceLinkOk(v)

\* C21: every stored evidence_url of a test and every stored jam_link of a
\* bug is null or an absolute URL that contains the provider's domain, and
\* a createTest, updateTest, updateTestResult, createBug or updateBug
\* request whose link is neither is answered 400.
C21_EvidenceLinkInvariant ==
    /\ \A t \in DOMAIN tests : EvidenceLinkOk(tests[t].evidence_url)
    /\ \A b \in DOMAIN bugs : EvidenceLinkOk(bugs[b].jam_link)
    /\ \A body \in EvidenceCreateTestBodies :
           ~EvidenceInputOk(body.evidence_url) => createTestResponse(1, body, TRUE).status = 400
    /\ \A body \in EvidenceCreateBugBodies :
           ~EvidenceInputOk(body.jam_link) => createBugResponse(2, body, TRUE).status = 400
    /\ \A t \in DOMAIN tests :
           /\ \A body \in EvidenceUpdateTestBodies :
                  ~EvidenceInputOk(body.evidence_url) =>
                      updateTestResponse(1, t, body, TRUE).status = 400
           /\ \A body \in EvidenceResultBodies :
                  ~EvidenceInputOk(body.evidence_url) =>
                      updateTestResultResponse(2, t, body, TRUE).status = 400
    /\ \A b \in DOMAIN bugs :
           \A body \in EvidenceUpdateBugBodies :
               ~EvidenceInputOk(body.jam_link) => updateBugResponse(1, b, body, TRUE).status = 400

\* C22: deleting a converted bug removes only the bug: the step that deletes
\* a bug deletes no test, sets source_bug_id to null on the tests derived
\* from it and changes no other field of any test; and no test's
\* source_bug_id ever names a bug that does not exist.
C22_DeleteBugKeepsTest ==
    /\ [](\A t \in DOMAIN tests :
            tests[t].source_bug_id # NullId => tests[t].source_bug_id \in DOMAIN bugs)
    /\ [][\A b \in DOMAIN bugs :
             b \notin DOMAIN bugs' =>
                 /\ DOMAIN tests' = DOMAIN tests
                 /\ \A t \in DOMAIN tests :
                        tests'[t] = IF tests[t].source_bug_id = b
                                    THEN [tests[t] EXCEPT !.source_bug_id = NullId]
                                    ELSE tests[t]]_vars

\* the PM has deleted the converted bug 1; the test derived from it, which
\* holds the bug's link as its evidence, is still there without a source
C22_Witness ==
    /\ LastLog(log, "Bug deleted", 1, 1)
    /\ convertLog[1] = 1
    /\ 1 \notin DOMAIN bugs
    /\ \E t \in DOMAIN tests :
           tests[t].source_bug_id = NullId /\ tests[t].evidence_url \in {JamUrl, OtherUrl}

\* C23: a user's role changes only by an updateUser request on that user
\* made by another user, who is authenticated and whose stored role is PM;
\* no request changes the role of the user who makes it, and no request of
\* a QA or ENG changes any role.
C23_RoleChangedOnlyByOtherPM ==
    [][\A x \in DOMAIN users \cap DOMAIN users' :
         users'[x].role # users[x].role =>
             /\ log' # log
             /\ log'.event = "User updated"
             /\ log'.id = x
             /\ log'.by # x
             /\ authenticate(log'.by) = Passed
             /\ users[log'.by].role = "PM"]_vars

\* C24: conversion is a transition from open or in_progress only: a
\* convertToTest that goes through found the bug open or in_progress, and
\* on a resolved or closed bug every convertToTest is refused with a 4xx.
C24_ConvertOnlyFromOpen ==
    /\ [](\A b \in DOMAIN bugs :
            bugs[b].status \in {"resolved", "closed"} =>
                \A u \in Actors, body \in ConvertBodies :
                    ClientError(convertToTestResponse(u, b, body, TRUE)))
    /\ [][\A b \in DOMAIN bugs :
             convertLog'[b] > convertLog[b] => bugs[b].status \in {"open", "in_progress"}]_vars

\* the content fields a PUT /tests/:id body can supply
TestContentFields == {"module_platform", "test_case", "expected_result", "evidence_url"}

\* row new differs from row old only in fields that body supplies, and in
\* those it holds the supplied value (null for an emptied evidence link)
OnlySuppliedChanged(old, new, body) ==
    /\ \A f \in TestContentFields :
           new[f] # old[f] => body[f] # Undefined /\ new[f] = OrNull(body[f])
    /\ new.assigned_to # old.assigned_to => new.assigned_to = body.assigned_to

Submitted(v) == IF v \in {Undefined, ""} THEN Null ELSE v

\* the row a recorded result leaves behind
Recorded(row, body) ==
    [row EXCEPT !.status = body.status, !.evidence_url = Submitted(body.evidence_url),
                !.notes = Submitted(body.notes)]

\* C30: recording a result overwrites: after an updateTestResult that goes
\* through, status is the submitted status and evidence_url and notes are
\* the submitted values, null for an omitted one; a stored value, such as
\* the evidence copied from the source bug, is not kept.
C30_ResultOverwrites ==
    /\ [](\A t \in DOMAIN tests, body \in EvidenceResultBodies :
            Success(updateTestResultResponse(tests[t].assigned_to, t, body, TRUE)) =>
                updateTestResultData(tests[t], body) = Recorded(tests[t], body))
    /\ [][\A t \in DOMAIN tests :
             (log' # log /\ log'.event = "Test result updated" /\ log'.id = t) =>
                 \E body \in EvidenceResultBodies :
                     /\ Success(updateTestResultResponse(log'.by, t, body, TRUE))
                     /\ tests' = [tests EXCEPT ![t] = Recorded(tests[t], body)]]_vars

\* QA 2 has recorded a result without evidence and notes on the test derived
\* from bug 1: the link copied from the bug at conversion is gone
C30_Witness ==
    /\ \E t \in DOMAIN tests :
           /\ LastLog(log, "Test result updated", t, 2)
           /\ tests[t].source_bug_id = 1
           /\ tests[t].status \in {"pass", "fail"}
           /\ tests[t].evidence_url = Null
           /\ tests[t].notes = Null
    /\ 1 \in DOMAIN bugs /\ bugs[1].jam_link = JamUrl /\ convertLog[1] = 1

\* the link of bug b to its derived test is as the schema means it
LinkConsistent(b) ==
    /\ bugs[b].status = "converted_to_test" <=> bugs[b].converted_to_test_id # NullId
    /\ bugs[b].converted_to_test_id # NullId =>
           /\ bugs[b].converted_to_test_id \in DOMAIN tests
           /\ tests[bugs[b].converted_to_test_id].source_bug_id = b

\* C28: a bug has status converted_to_test exactly when converted_to_test_id
\* is set; the id then names an existing test whose source_bug_id is the
\* bug; and once set, converted_to_test_id and converted_at of a bug that
\* still exists never change, whatever is deleted or updated afterwards.
C28_LinkConsistency ==
    /\ [](\A b \in DOMAIN bugs : LinkConsistent(b))
    /\ [][\A b \in DOMAIN bugs \cap DOMAIN bugs' :
             bugs[b].converted_to_test_id # NullId =>
                 /\ bugs'[b].converted_to_test_id = bugs[b].converted_to_test_id
                 /\ bugs'[b].converted_at = bugs[b].converted_at]_vars

\* C29: every test always has a QA assignee: whatever createTest,
\* updateTest, convertToTest, updateUser and deleteUser requests were made,
\* each test's assigned_to names an existing user whose role is QA.
C29_AssigneeIsQA ==
    \A t \in DOMAIN tests :
        tests[t].assigned_to \in DOMAIN users /\ users[tests[t].assigned_to].role = "QA"

\* the fields a recorded result writes
ResultFields == {"status", "evidence_url", "notes"}

\* C26: a result is written only for the user who is the assignee when the
\* write reaches the store: a step in which a QA's updateTestResult changes
\* status, evidence_url or notes of a test finds that QA in the test's
\* assigned_to, also when a PM's reassignment came in between.
C26_ResultWriteByAssignee ==
    [][\A t \in DOMAIN tests \cap DOMAIN tests' :
         (/\ log' # log /\ log'.event = "Test result updated" /\ log'.id = t
          /\ \E f \in ResultFields : tests'[t][f] # tests[t][f]) =>
             tests[t].assigned_to = log'.by]_vars

\* the content fields of a bug
BugContentFields == {"module_platform", "jam_link", "description", "note", "severity"}

\* C27: the creator's edit never lands on a converted bug: once a bug's
\* status is converted_to_test, no updateBug of the QA who created it
\* changes a content field, also when that request had read the bug before
\* the PM's conversion was written.
C27_CreatorEditNeverOnConverted ==
    [][\A b \in DOMAIN bugs \cap DOMAIN bugs' :
         (/\ bugs[b].status = "converted_to_test"
          /\ log' # log /\ LastLog(log', "Bug updated", b, bugs[b].created_by)
          /\ users[bugs[b].created_by].role = "QA") =>
             \A f \in BugContentFields : bugs'[b][f] = bugs[b][f]]_vars
====
